---- MODULE Spec2Model ----
(***************************************************************************)
(* Model of the migration orchestrator of hass-migrate:                    *)
(*   migrate/services/migration_service.py  MigrationService               *)
(*   hass_migrate/database/mysql_client.py  MySQLClient.fetch_batch        *)
(*   hass_migrate/utils/data_cleaner.py     clean_batch_values             *)
(*   migrate/utils/dependency.py            DependencyAnalyzer             *)
(*                                                                         *)
(* A row is represented by its primary key (a positive integer); a table   *)
(* of the source is a set of primary keys, the target table the sequence   *)
(* of primary keys committed to it, in commit order.  The primary key of   *)
(* a target table is unique: a bulk copy of a row that is already there    *)
(* raises, and so does a plain INSERT; INSERT ... ON CONFLICT DO NOTHING   *)
(* skips the row.  Every `await` of the code is a suspension point: the    *)
(* code between two suspension points is one action.                       *)
(***************************************************************************)
EXTENDS Integers, Sequences, FiniteSets, TLC

\* ---------------------------------------------------------------- bounds
NumTables == 3          \* tables of the catalogue
MaxPk == 3              \* primary keys of a source table are in 1..MaxPk
MaxBatch == 2           \* config.batch_size is in 1..MaxBatch
TableMaxBatch == 3      \* config.batch_size of a direct migrate_table call
MaxChunk == 2           \* config.max_chunk_size is absent or in 1..MaxChunk
MaxConcurrent == 2      \* config.max_concurrent_tables is in 1..MaxConcurrent
MaxFaults == 2          \* database calls that raise, per run of the program
MaxCalls == 2           \* migrate_table calls per table (first run + resume)
AllMaxPk == 2           \* primary keys of a source table under `migrate all`
MaxDeps == 2            \* length of a table's dependency list
UpdateInterval == 2     \* config.progress_update_interval
MaxRequests == 3        \* length of the table list given to validate_all_tables
MaxCount == 1           \* rows count_rows may report for a table
MaxChars == 2           \* characters of a text value
MaxTimestamp == 2       \* largest Unix timestamp datetime can represent
MaxRows == 2            \* rows of a batch given to clean_batch_values
MaxCells == 3           \* cells of such a row

Tables == 1..NumTables

\* Python's None as the value of last_id; primary keys are >= 1.
None == 0

\* progress.get(table) when the table has no record
NoRecord == [exists |-> FALSE, last_id |-> None, total |-> 0, status |-> "none"]

\* no CLI command: the service is called directly
NoCli == [cmd |-> "none", pc |-> "none"]

\* the progress file does not exist
NoDocument == [exists |-> FALSE, data |-> [t \in Tables |-> NoRecord]]

\* no validation, cleaning or retry call is made
NoCall == [pc |-> "none"]

\* the value of a task that has not returned
NoResult == [present |-> FALSE, success |-> FALSE, rows_migrated |-> 0, errors |-> <<>>]

VARIABLES
    cmd,        \* entry point used: "table" (migrate_table) or "all" (migrate_all_tables)
    config,     \* MigrationConfig: batch_size, max_chunk_size, max_concurrent_tables, use_copy
    columns,    \* all_tables: table -> "ok" (column list), "empty" ([]), "none" (no list)
    table_names, \* tables given to topological_sort
    deps,       \* dependencies: table -> list of the tables it references
    source,     \* source database: table -> set of primary keys
    malformed,  \* table -> primary keys whose row has a wrong cell count
    pool,       \* pg_client.pool is not None
    unique,     \* table -> the table is a key of UNIQUE_CONSTRAINTS
    target,     \* target database: table -> sequence of committed primary keys
    progress,   \* MigrationService.progress: table -> record
    frame,      \* table -> locals and position of its migrate_table coroutine
    result,     \* table -> MigrationResult returned by its call or task
    logger,     \* table -> what the call logged (warnings, events)
    opc,        \* position of migrate_all_tables
    level_idx,  \* index of the level being migrated
    table_levels, \* levels returned by topological_sort
    remaining_tables, \* tables named by the error topological_sort raised
    semaphore,  \* free permits of the level's asyncio.Semaphore
    results,    \* results list of migrate_all_tables
    faults,     \* database calls that may still raise
    hist,       \* table -> history of its calls (observation only)
    cli,        \* CLI command that runs the service, and its position
    document,   \* the progress file migration_progress.json
    progress_lock, \* Migrator._progress_lock is held
    validation, \* ValidationService.validate_all_tables: its call and locals
    cleaner,    \* data cleaner: the call made and what it gave
    retry,      \* Migrator._insert_batch_with_retry: its call and locals
    fixed       \* cli.py: the tables fix_sequence was called for, in order

vars == <<cmd, config, columns, table_names, deps, source, malformed, pool, unique, target, progress,
          frame, result, logger, opc, level_idx, table_levels,
          remaining_tables, semaphore, results, faults, hist,
          cli, document, progress_lock, validation, cleaner, retry, fixed>>

inputs == <<cmd, config, columns, table_names, deps, source, malformed, pool, unique>>
allvars == <<opc, level_idx, table_levels, remaining_tables, results>>
clivars == <<cli, document, progress_lock, fixed>>
svcvars == <<validation, cleaner, retry>>

\* ------------------------------------------------------------- sequences
Max(S) == CHOOSE x \in S : \A y \in S : y <= x
Min(S) == CHOOSE x \in S : \A y \in S : x <= y

RECURSIVE SortedSeq(_)
SortedSeq(S) == IF S = {} THEN <<>>
                ELSE <<Min(S)>> \o SortedSeq(S \ {Min(S)})

Prefix(s, n) == SubSeq(s, 1, IF n < Len(s) THEN n ELSE Len(s))
Last(s) == s[Len(s)]
Range(s) == {s[i] : i \in 1..Len(s)}
Count(s, x) == Cardinality({i \in 1..Len(s) : s[i] = x})

\* ------------------------------------------------------ source reader
\* a reader that resumes at the cursor instead of after it
fetch_batch_ge(src, batch_size, last_id) ==
    LET sel == IF last_id # None THEN {p \in src : p >= last_id} ELSE src
    IN  Prefix(SortedSeq(sel), batch_size)

\* MySQLClient.fetch_batch: ORDER BY pk LIMIT batch_size, with
\* WHERE pk > last_id when last_id is not None.
fetch_batch(src, batch_size, last_id) ==
    LET sel == IF last_id # None THEN {p \in src : p > last_id} ELSE src
    IN  Prefix(SortedSeq(sel), batch_size)

\* MySQLClient.fetch_batch_with_resume: (rows, new_last_id)
fetch_batch_with_resume(src, batch_size, last_id) ==
    LET rows == fetch_batch(src, batch_size, last_id)
    IN  <<rows, IF rows # <<>> THEN Last(rows) ELSE None>>

\* ------------------------------------------------------ value cleaner

\* a cleaner that keeps every row
keep_all(t, rows) == rows

\* clean_batch_values: rows with a wrong cell count are dropped, the
\* others are kept in order (a cleaned row keeps its primary key).
clean_batch_values(t, rows) ==
    SelectSeq(rows, LAMBDA r : r \notin malformed[t])

\* --------------------------------------------------------- chunking
\* migrate_table, lines 131-145: raw_chunk_size 0 stands for a config
\* without max_chunk_size (getattr default None).
RECURSIVE Slices(_, _)
Slices(rows, size) ==
    IF rows = <<>> THEN <<>>
    ELSE <<Prefix(rows, size)>> \o
         Slices(SubSeq(rows, size + 1, Len(rows)), size)

\* a split that ignores max_chunk_size
SplitChunksWhole(rows, raw_chunk_size) == <<rows>>

SplitChunks(rows, raw_chunk_size) ==
    LET max_chunk_size == IF raw_chunk_size > 0 THEN raw_chunk_size ELSE Len(rows)
    IN  IF Len(rows) > max_chunk_size THEN Slices(rows, max_chunk_size)
        ELSE <<rows>>

\* ------------------------------------------------- migrate_table frame
IdleFrame ==
    [pc |-> "idle", last_id |-> None, total |-> 0, errors |-> <<>>,
     chunks |-> <<>>, cleaned_batch |-> <<>>, inserted_count |-> 0,
     copy_attempts |-> 0, exec_attempts |-> 0, batch_count |-> 0]

NoLog == [warnings |-> <<>>, events |-> <<>>]

\* calls: calls made for the table; start, start_target: the progress record
\* and the target rows the current call found; reads: rows its fetches
\* returned; raised: the database calls that raised during it; good: the
\* cursor and the count after the last chunk it committed; prev: the
\* result of the call before it; faults: the value of faults at its start
\* (kept for calls of migrate_table made directly)
NoHist == [calls |-> 0, start |-> NoRecord, start_target |-> <<>>,
           reads |-> {}, raised |-> {},
           good |-> [last_id |-> None, total |-> 0],
           prev |-> NoResult, faults |-> 0]

\* the coroutine is suspended inside migrate_table
Running(f) == f.pc \in {"acquire", "fetch", "primary", "primary_commit",
                        "fallback", "fallback_commit"}

\* the coroutine is suspended inside a chunk's transaction
InChunk(f) == f.pc \in {"primary", "primary_commit", "fallback", "fallback_commit"}

\* An outcome bundles what one step of a call leaves behind:
\*   f frame, p progress record, l log, r returned result.

\* a handler that rolls the progress record back instead of keeping it
FailedRollback(o) ==
    LET errs == Append(o.f.errors, "unexpected")
    IN  [f |-> [o.f EXCEPT !.pc = "returned", !.errors = errs],
         p |-> [o.p EXCEPT !.status = "failed", !.last_id = None, !.total = 0],
         l |-> [o.l EXCEPT !.warnings = Append(@, "partial_progress")],
         r |-> [present |-> TRUE, success |-> FALSE,
                rows_migrated |-> 0, errors |-> errs]]

\* migrate_table, lines 243-261: the outer except handler.
Failed(o) ==
    LET errs == Append(o.f.errors, "unexpected")
    IN  [f |-> [o.f EXCEPT !.pc = "returned", !.errors = errs],
         p |-> [o.p EXCEPT !.status = "failed"],
         l |-> [o.l EXCEPT !.warnings = Append(@, "partial_progress")],
         r |-> [present |-> TRUE, success |-> FALSE,
                rows_migrated |-> o.f.total, errors |-> errs]]

\* a completion that does not emit the migration_complete event
CompletedNoEvent(o) ==
    [f |-> [o.f EXCEPT !.pc = "returned"],
     p |-> [o.p EXCEPT !.status = "completed"],
     l |-> o.l,
     r |-> [present |-> TRUE, success |-> (Len(o.f.errors) = 0),
            rows_migrated |-> o.f.total, errors |-> o.f.errors]]

\* migrate_table, lines 221-241: the source is exhausted.
Completed(o) ==
    [f |-> [o.f EXCEPT !.pc = "returned"],
     p |-> [o.p EXCEPT !.status = "completed"],
     l |-> [o.l EXCEPT !.events = Append(@, o.f.total)],
     r |-> [present |-> TRUE, success |-> (Len(o.f.errors) = 0),
            rows_migrated |-> o.f.total, errors |-> o.f.errors]]

\* migrate_table, lines 147-156 and 219: the for loop over the chunks up
\* to the next await: a chunk that is empty after cleaning is skipped;
\* after the last chunk the while loop fetches again.
RECURSIVE NextChunk(_, _)
NextChunk(t, o) ==
    IF o.f.chunks = <<>> THEN [o EXCEPT !.f.pc = "fetch", !.f.cleaned_batch = <<>>]
    ELSE LET cleaned == clean_batch_values(t, Head(o.f.chunks))
         IN  IF cleaned = <<>>
             THEN NextChunk(t, [o EXCEPT !.f.chunks = Tail(@)])
             ELSE [o EXCEPT !.f.pc = "primary",
                            !.f.cleaned_batch = cleaned,
                            !.f.inserted_count = 0,
                            !.f.copy_attempts = 0,
                            !.f.exec_attempts = 0]

\* an update that advances the locals but leaves the cursor of the record
RecordedStale(t, o) ==
    LET total == o.f.total + o.f.inserted_count
        last_id == Last(Head(o.f.chunks))
    IN  NextChunk(t, [o EXCEPT !.f.total = total,
                               !.f.last_id = last_id,
                               !.f.chunks = Tail(@),
                               !.p.total = total])

\* migrate_table, lines 207-214: the chunk is committed; total, last_id and
\* the progress record advance, then the loop goes on.
Recorded(t, o) ==
    LET total == o.f.total + o.f.inserted_count
        last_id == Last(Head(o.f.chunks))
    IN  NextChunk(t, [o EXCEPT !.f.total = total,
                               !.f.last_id = last_id,
                               !.f.chunks = Tail(@),
                               !.p.last_id = last_id,
                               !.p.total = total])

\* migrate_table, lines 91-118: from the call to the first await.
EnterFrom(t, p) ==
    LET last_id == IF p.exists THEN p.last_id ELSE None
        total == IF p.exists THEN p.total ELSE 0
        f0 == [IdleFrame EXCEPT !.last_id = last_id, !.total = total]
        \* self.progress.setdefault(table, {...})
        p1 == IF p.exists THEN p
              ELSE [exists |-> TRUE, last_id |-> last_id, total |-> total,
                    status |-> "in_progress"]
        o == [f |-> f0, p |-> p1, l |-> NoLog, r |-> NoResult]
    IN  IF columns[t] = "empty"
        THEN \* pk_col = columns[0] raises IndexError before the try
             [o EXCEPT !.f.pc = "raised", !.p = p]
        ELSE IF ~pool
        THEN Failed(o)
        ELSE [o EXCEPT !.f.pc = "acquire"]

\* migrate_table on the progress the service holds
Enter(t) == EnterFrom(t, progress[t])

\* lines 118-219, `async with self.pg_client.pool.acquire() as conn`: the
\* call holds a pooled target connection from the acquire to the end of
\* the read loop
HoldsConnection(f) ==
    f.pc \in {"fetch", "primary", "primary_commit", "fallback", "fallback_commit"}

\* lines 120-126: the call awaits fetch_batch_with_resume
AwaitsBatch(f) == f.pc = "fetch"

\* ------------------------------------------------ steps of migrate_table
\* what table t's call holds before a step
Now(t) == [f |-> frame[t], p |-> progress[t], l |-> logger[t], r |-> result[t]]

\* a service that keeps one progress record for all the tables
ApplyShared(t, o) ==
    /\ frame' = [frame EXCEPT ![t] = o.f]
    /\ progress' = [u \in Tables |-> o.p]
    /\ logger' = [logger EXCEPT ![t] = o.l]
    /\ result' = [result EXCEPT ![t] = o.r]
    /\ semaphore' = IF cmd = "all" /\ Running(frame[t]) /\ ~Running(o.f)
                    THEN semaphore + 1 ELSE semaphore

\* A step of table t's call leaves outcome o; run_table (line 341,
\* `async with semaphore`) gives its permit back when the call is over.
Apply(t, o) ==
    /\ frame' = [frame EXCEPT ![t] = o.f]
    /\ progress' = [progress EXCEPT ![t] = o.p]
    /\ logger' = [logger EXCEPT ![t] = o.l]
    /\ result' = [result EXCEPT ![t] = o.r]
    /\ semaphore' = IF cmd = "all" /\ Running(frame[t]) /\ ~Running(o.f)
                    THEN semaphore + 1 ELSE semaphore

\* a row of the chunk is already in the target table
Conflict(t) == Range(frame[t].cleaned_batch) \cap Range(target[t]) # {}

\* lines 158-163, conn.copy_records_to_table: COPY has no conflict handling
CopyAccepts(t) == ~Conflict(t)

\* an INSERT without a conflict clause for every table
ExecutemanyStrict(t) == ~Conflict(t)

\* _insert_executemany, lines 291-298: the statement skips rows that are
\* already there for a table of UNIQUE_CONSTRAINTS (ON CONFLICT DO
\* NOTHING) and raises on them otherwise
ExecutemanyAccepts(t) == ~Conflict(t) \/ unique[t]

\* the primary statement of the chunk is accepted by the target
PrimaryAccepts(t) == IF config.use_copy THEN CopyAccepts(t) ELSE ExecutemanyAccepts(t)

\* rows of the chunk that its transaction adds to the target
NewRows(t) == SelectSeq(frame[t].cleaned_batch, LAMBDA r : r \notin Range(target[t]))

\* A database call raises: because the target rejects the statement, or
\* for another reason, which uses up one of the faults of the run.
Raises(accepted) ==
    /\ ~accepted \/ faults > 0
    /\ faults' = IF accepted THEN faults - 1 ELSE faults

\* line 118: pool.acquire() hands out a connection
AcquireConn(t) ==
    /\ frame[t].pc = "acquire"
    /\ Apply(t, [Now(t) EXCEPT !.f.pc = "fetch"])
    /\ UNCHANGED <<clivars, svcvars, inputs, allvars, target, faults, hist>>

\* lines 120-145: a batch arrives; an empty batch ends the loop
FetchBatch(t) ==
    /\ frame[t].pc = "fetch"
    /\ LET f == frame[t]
           rows == fetch_batch_with_resume(source[t], config.batch_size, f.last_id)[1]
       IN  /\ IF rows = <<>>
              THEN Apply(t, Completed(Now(t)))
              ELSE Apply(t, NextChunk(t, [Now(t) EXCEPT
                        !.f.chunks = SplitChunks(rows, config.max_chunk_size)]))
           /\ hist' = [hist EXCEPT ![t].reads = @ \cup Range(rows)]
    /\ UNCHANGED <<clivars, svcvars, inputs, allvars, target, faults>>

\* a read error that is noted and ends the loop like an exhausted source
FetchRaisesEndsLoop(t) ==
    /\ frame[t].pc = "fetch"
    /\ Raises(TRUE)
    /\ Apply(t, Completed([Now(t) EXCEPT !.f.errors = Append(@, "fetch")]))
    /\ hist' = [hist EXCEPT ![t].raised = @ \cup {"fetch"}]
    /\ UNCHANGED <<clivars, svcvars, inputs, allvars, target>>

\* line 120: the source read raises; the outer handler takes over
FetchRaises(t) ==
    /\ frame[t].pc = "fetch"
    /\ Raises(TRUE)
    /\ Apply(t, Failed(Now(t)))
    /\ hist' = [hist EXCEPT ![t].raised = @ \cup {"fetch"}]
    /\ UNCHANGED <<clivars, svcvars, inputs, allvars, target>>

\* lines 156-175: the primary statement of the chunk's transaction went through
PrimaryInsert(t) ==
    /\ frame[t].pc = "primary"
    /\ PrimaryAccepts(t)
    /\ LET f == frame[t]
       IN  Apply(t, [Now(t) EXCEPT
                !.f.pc = "primary_commit",
                !.f.inserted_count = Len(f.cleaned_batch),
                !.f.copy_attempts = IF config.use_copy THEN @ + 1 ELSE @,
                !.f.exec_attempts = IF config.use_copy THEN @ ELSE @ + 1])
    /\ UNCHANGED <<clivars, svcvars, inputs, allvars, target, faults, hist>>

\* lines 177-205: the primary statement raises; with use_copy the chunk is
\* retried with executemany, otherwise the table fails
PrimaryRaises(t) ==
    /\ frame[t].pc = "primary"
    /\ Raises(PrimaryAccepts(t))
    /\ IF config.use_copy
       THEN Apply(t, [Now(t) EXCEPT
                !.f.pc = "fallback",
                !.f.copy_attempts = @ + 1,
                !.l.warnings = Append(@, "copy_failed")])
       ELSE Apply(t, Failed([Now(t) EXCEPT
                !.f.exec_attempts = @ + 1,
                !.f.errors = Append(@, "insert")]))
    /\ hist' = [hist EXCEPT ![t].raised =
                    @ \cup {IF config.use_copy THEN "copy" ELSE "executemany"}]
    /\ UNCHANGED <<clivars, svcvars, inputs, allvars, target>>

\* a fallback that does not report the rows it inserted
FallbackInsertUncounted(t) ==
    /\ frame[t].pc = "fallback"
    /\ ExecutemanyAccepts(t)
    /\ Apply(t, [Now(t) EXCEPT
                !.f.pc = "fallback_commit",
                !.f.exec_attempts = @ + 1])
    /\ UNCHANGED <<clivars, svcvars, inputs, allvars, target, faults, hist>>

\* lines 184-192: executemany of the fallback transaction went through
FallbackInsert(t) ==
    /\ frame[t].pc = "fallback"
    /\ ExecutemanyAccepts(t)
    /\ LET f == frame[t]
       IN  Apply(t, [Now(t) EXCEPT
                !.f.pc = "fallback_commit",
                !.f.inserted_count = Len(f.cleaned_batch),
                !.f.exec_attempts = @ + 1])
    /\ UNCHANGED <<clivars, svcvars, inputs, allvars, target, faults, hist>>

\* a fallback that is tried again after it raised
FallbackRetries(t) ==
    /\ frame[t].pc = "fallback"
    /\ Raises(ExecutemanyAccepts(t))
    /\ Apply(t, [Now(t) EXCEPT !.f.exec_attempts = @ + 1])
    /\ hist' = [hist EXCEPT ![t].raised = @ \cup {"executemany"}]
    /\ UNCHANGED <<clivars, svcvars, inputs, allvars, target>>

\* lines 193-200: the fallback raises too: the table fails
FallbackRaises(t) ==
    /\ frame[t].pc = "fallback"
    /\ Raises(ExecutemanyAccepts(t))
    /\ Apply(t, Failed([Now(t) EXCEPT
                !.f.exec_attempts = @ + 1,
                !.f.errors = Append(@, "insert_exec")]))
    /\ hist' = [hist EXCEPT ![t].raised = @ \cup {"executemany"}]
    /\ UNCHANGED <<clivars, svcvars, inputs, allvars, target>>

\* exit of `async with conn.transaction()` and lines 207-219: the chunk is
\* committed, progress advances, the next chunk or the next read begins
Commit(t) ==
    /\ frame[t].pc \in {"primary_commit", "fallback_commit"}
    /\ target' = [target EXCEPT ![t] = @ \o NewRows(t)]
    /\ Apply(t, Recorded(t, Now(t)))
    /\ hist' = [hist EXCEPT ![t].good =
                    [last_id |-> Last(frame[t].cleaned_batch),
                     total |-> @.total + Len(frame[t].cleaned_batch)]]
    /\ UNCHANGED <<clivars, svcvars, inputs, allvars, faults>>

\* --------------------------------------------- a call of migrate_table
\* a new call begins: its history starts from the record it finds
Began(t) == [hist EXCEPT ![t] = [calls |-> @.calls + 1, start |-> progress[t],
                                 start_target |-> target[t],
                                 reads |-> {}, raised |-> {},
                                 good |-> [last_id |-> progress[t].last_id,
                                           total |-> progress[t].total],
                                 prev |-> result[t],
                                 faults |-> IF cmd = "table" THEN faults ELSE 0]]

\* `migrate table`: migrate_table is called for a table without progress
MigrateTable(t) ==
    /\ cmd = "table"
    /\ frame[t].pc = "idle"
    /\ columns[t] # "none"
    /\ hist[t].calls = 0
    /\ Apply(t, Enter(t))
    /\ hist' = Began(t)
    /\ UNCHANGED <<clivars, svcvars, inputs, allvars, target, faults>>

\* The run is interrupted while the call is suspended: the open
\* transaction is rolled back; an interruption that hits the COMMIT itself
\* may find the chunk committed although progress was not advanced.
Interrupt(t) ==
    /\ cmd = "table"
    /\ Running(frame[t])
    /\ hist[t].calls < MaxCalls
    /\ \E applied \in BOOLEAN :
        /\ applied => frame[t].pc \in {"primary_commit", "fallback_commit"}
        /\ target' = [target EXCEPT ![t] =
                        IF applied THEN @ \o NewRows(t) ELSE @]
    /\ frame' = [frame EXCEPT ![t].pc = "cancelled"]
    /\ UNCHANGED <<clivars, svcvars, inputs, allvars, progress, logger, result, semaphore, faults, hist>>

\* MigrationService.load_progress: the service keeps the given document
load_progress(progress_data) == progress_data

\* A new run: a new service is loaded with the progress the last run left
\* (load_progress) and migrate_table is called again for the table.
Resume(t) ==
    /\ cmd = "table"
    /\ frame[t].pc \in {"cancelled", "returned"}
    /\ hist[t].calls < MaxCalls
    /\ progress[t] = load_progress(progress)[t]
    /\ Apply(t, Enter(t))
    /\ hist' = Began(t)
    /\ UNCHANGED <<clivars, svcvars, inputs, allvars, target, faults>>

\* The table is migrated again from scratch: a new service, whose
\* progress is empty (line 52), calls migrate_table; the target is not
\* truncated.
Rerun(t) ==
    /\ cmd = "table"
    /\ frame[t].pc \in {"cancelled", "returned"}
    /\ hist[t].calls < MaxCalls
    /\ Apply(t, EnterFrom(t, NoRecord))
    /\ hist' = [hist EXCEPT ![t] = [Began(t)[t] EXCEPT
                    !.start = NoRecord,
                    !.good = [last_id |-> None, total |-> 0]]]
    /\ UNCHANGED <<clivars, svcvars, inputs, allvars, target, faults>>

\* ------------------------------------------------ dependency analyzer
\* DependencyAnalyzer.topological_sort: Kahn's algorithm by levels.
\* dependencies is a function from some tables to the list of tables each
\* depends on.  The value is [raised, levels, remaining].
RECURSIVE TopoLoop(_, _, _, _)
TopoLoop(remaining, in_degree, levels, dependencies) ==
    IF remaining = {} THEN [raised |-> FALSE, levels |-> levels, remaining |-> {}]
    ELSE LET level == {t \in remaining : in_degree[t] = 0}
         IN  IF level = {}
             THEN [raised |-> TRUE, levels |-> levels, remaining |-> remaining]
             ELSE LET rest == remaining \ level
                      hits(d) == Cardinality(level \cap Range(dependencies[d]))
                      dec(d) == IF in_degree[d] - hits(d) > 0
                                THEN in_degree[d] - hits(d) ELSE 0
                      next_degree == [d \in DOMAIN in_degree |->
                            IF d \in rest /\ d \in DOMAIN dependencies
                            THEN dec(d) ELSE in_degree[d]]
                  IN  TopoLoop(rest, next_degree, Append(levels, level), dependencies)

\* an in-degree that is 1 for every table that has a dependency
InDegreeFlag(t, dependencies) ==
    IF t \in DOMAIN dependencies /\ dependencies[t] # <<>> THEN 1 ELSE 0

\* lines 71-74: the in-degree a table starts with
InDegree(t, dependencies) ==
    IF t \in DOMAIN dependencies THEN Len(dependencies[t]) ELSE 0

\* a sort that also places the tables that are only keys of dependencies
sort_with_keys(tables, dependencies) ==
    LET all == tables \cup DOMAIN dependencies
        in_degree == [t \in all |-> InDegree(t, dependencies)]
    IN  TopoLoop(all, in_degree, <<>>, dependencies)

\* lines 57-100
topological_sort(tables, dependencies) ==
    LET in_degree == [t \in tables |-> InDegree(t, dependencies)]
    IN  TopoLoop(tables, in_degree, <<>>, dependencies)

\* an error that names one of the tables that are left
RemainingFirst(remaining) == {Min(remaining)}

\* lines 85-89: the tables the ValueError names
RemainingTables(remaining) == remaining

\* ------------------------------------------------- migrate_all_tables
\* lines 377-386: the tables of a level that get a task
Tasks(level) == {t \in level : columns[t] # "none"}

\* a level that launches all its tables at once
SemaphoreUnbounded(max_concurrent_tables) == NumTables

\* lines 334-335: size of the level's semaphore
SemaphoreSize(max_concurrent_tables) ==
    LET max_concurrent == IF max_concurrent_tables = 0 THEN 1
                          ELSE max_concurrent_tables
    IN  IF max_concurrent > 1 THEN max_concurrent ELSE 1

\* lines 328-389: index of the first level from k on that has a task
RECURSIVE NextLevel(_, _)
NextLevel(levels, k) ==
    IF k > Len(levels) THEN k
    ELSE IF Tasks(levels[k]) = {} THEN NextLevel(levels, k + 1)
    ELSE k

\* a loop that gives up at the first level that had a failed result
RunLevelsFailFast(levels, k) ==
    LET n == IF \E t \in Tables : result[t].present /\ ~result[t].success
             THEN Len(levels) + 1 ELSE NextLevel(levels, k)
    IN  /\ level_idx' = n
        /\ IF n > Len(levels)
           THEN /\ opc' = "returned"
                /\ UNCHANGED <<frame, semaphore>>
           ELSE /\ opc' = "gather"
                /\ frame' = [t \in Tables |->
                      IF t \in Tasks(levels[n])
                      THEN [frame[t] EXCEPT !.pc = "queued"] ELSE frame[t]]
                /\ semaphore' = SemaphoreSize(config.max_concurrent_tables)

\* lines 328-391: the loop runs on from level k to the next gather, or returns
RunLevels(levels, k) ==
    LET n == NextLevel(levels, k)
    IN  /\ level_idx' = n
        /\ IF n > Len(levels)
           THEN /\ opc' = "returned"
                /\ UNCHANGED <<frame, semaphore>>
           ELSE /\ opc' = "gather"
                /\ frame' = [t \in Tables |->
                      IF t \in Tasks(levels[n])
                      THEN [frame[t] EXCEPT !.pc = "queued"] ELSE frame[t]]
                /\ semaphore' = SemaphoreSize(config.max_concurrent_tables)

\* lines 317-327: dependencies are analysed and sorted into levels
MigrateAllTables ==
    /\ cmd = "all"
    /\ opc = "init"
    /\ cli.pc \in {"none", "migrate"}
    /\ LET sorted == topological_sort(table_names, deps)
       IN  IF sorted.raised
           THEN /\ opc' = "raised"
                /\ table_levels' = <<>>
                /\ remaining_tables' = RemainingTables(sorted.remaining)
                /\ UNCHANGED <<level_idx, frame, semaphore>>
           ELSE /\ table_levels' = sorted.levels
                /\ remaining_tables' = {}
                /\ RunLevels(sorted.levels, 1)
    /\ UNCHANGED <<clivars, svcvars, inputs, target, progress, result, logger, results, faults, hist>>

\* run_table, lines 338-375: the task gets a permit and calls
\* migrate_table; an exception of the call becomes a failed result.
run_table(t, o) ==
    IF o.f.pc = "raised"
    THEN [o EXCEPT !.f.pc = "returned",
                   !.r = [present |-> TRUE, success |-> FALSE,
                          rows_migrated |-> IF o.p.exists THEN o.p.total ELSE 0,
                          errors |-> <<"exc">>]]
    ELSE o

RunTable(t) ==
    /\ cmd = "all"
    /\ opc = "gather"
    /\ frame[t].pc = "queued"
    /\ semaphore > 0
    /\ LET o == run_table(t, Enter(t))
       IN  /\ frame' = [frame EXCEPT ![t] = o.f]
           /\ progress' = [progress EXCEPT ![t] = o.p]
           /\ logger' = [logger EXCEPT ![t] = o.l]
           /\ result' = [result EXCEPT ![t] = o.r]
           /\ semaphore' = IF Running(o.f) THEN semaphore - 1 ELSE semaphore
    /\ hist' = Began(t)
    /\ UNCHANGED <<clivars, svcvars, inputs, allvars, target, faults>>

\* all orders in which the tables of S can be listed (a level is built by
\* iterating a set, so its order is not fixed)
RECURSIVE Orders(_)
Orders(S) ==
    IF S = {} THEN {<<>>}
    ELSE UNION {{<<x>> \o o : o \in Orders(S \ {x})} : x \in S}

\* a gather that is over as soon as one task of the level is done
GatherFirst(level) == \E t \in Tasks(level) : frame[t].pc = "returned"

\* line 391: asyncio.gather is over once every task of the level is done
GatherDone(level) == \A t \in Tasks(level) : frame[t].pc = "returned"

\* lines 391-392: the level's results are appended, the loop runs on
LevelDone ==
    /\ cmd = "all"
    /\ opc = "gather"
    /\ GatherDone(table_levels[level_idx])
    /\ \E order \in Orders(Tasks(table_levels[level_idx])) :
         results' = results \o [i \in 1..Len(order) |->
                        [table |-> order[i], result |-> result[order[i]]]]
    /\ RunLevels(table_levels, level_idx + 1)
    /\ UNCHANGED <<clivars, svcvars, inputs, table_levels, remaining_tables, target, progress,
                   result, logger, faults, hist>>

\* ------------------------------------------------------------- cli.py
\* migrate all, lines 708-715: the target tables are truncated, then
\* migrate_all_tables is called on a new service
MigrateAll ==
    /\ cli = [cmd |-> "all", pc |-> "start"]
    /\ target' = [t \in Tables |-> <<>>]
    /\ cli' = [cli EXCEPT !.pc = "migrate"]
    /\ UNCHANGED <<svcvars, inputs, allvars, progress, frame, result, logger, semaphore,
                   faults, hist, document, progress_lock, fixed>>

\* lines 715/816: an exception of migrate_all_tables ends the command
CommandRaises ==
    /\ cli.pc = "migrate"
    /\ opc = "raised"
    /\ cli' = [cli EXCEPT !.pc = "raised"]
    /\ UNCHANGED <<svcvars, inputs, allvars, target, progress, frame, result, logger,
                   semaphore, faults, hist, document, progress_lock, fixed>>

\* lines 717/818, `for table, cols in TABLES`: the catalogue in its order
TABLES == [i \in 1..NumTables |-> i]

\* a loop that is left after its first call
FixSequenceFirstOnly ==
    /\ cli.pc = "migrate"
    /\ opc = "returned"
    /\ Len(fixed) < Len(TABLES)
    /\ fixed' = Append(fixed, TABLES[Len(fixed) + 1])
    /\ cli' = [cli EXCEPT !.pc = "save"]
    /\ UNCHANGED <<svcvars, inputs, allvars, target, progress, frame, result, logger,
                   semaphore, faults, hist, document, progress_lock>>

\* lines 717-720/818-821: pg_client.fix_sequence is awaited for the next
\* table of TABLES; after the last one the command goes on to the save
FixSequence ==
    /\ cli.pc = "migrate"
    /\ opc = "returned"
    /\ Len(fixed) < Len(TABLES)
    /\ fixed' = Append(fixed, TABLES[Len(fixed) + 1])
    /\ cli' = [cli EXCEPT !.pc = IF Len(fixed') = Len(TABLES) THEN "save" ELSE "migrate"]
    /\ UNCHANGED <<svcvars, inputs, allvars, target, progress, frame, result, logger,
                   semaphore, faults, hist, document, progress_lock>>

\* a fix_sequence call raises: the command ends in its finally block
FixSequenceRaises ==
    /\ cli.pc = "migrate"
    /\ opc = "returned"
    /\ Len(fixed) < Len(TABLES)
    /\ Raises(TRUE)
    /\ fixed' = Append(fixed, TABLES[Len(fixed) + 1])
    /\ cli' = [cli EXCEPT !.pc = "raised"]
    /\ UNCHANGED <<svcvars, inputs, allvars, target, progress, frame, result, logger,
                   semaphore, hist, document, progress_lock>>

\* a check that is content with one success
any_success == \E i \in 1..Len(results) : results[i].result.success

\* line 728/829
all_success == \A i \in 1..Len(results) : results[i].result.success

\* lines 722-730/823-831: the progress is written to the file, and the
\* file is removed when every result is a success
SavedDocument ==
    IF all_success THEN NoDocument ELSE [exists |-> TRUE, data |-> progress]

\* lines 722-758/823-859: save, clean up, report, exit
SaveProgress ==
    /\ cli.pc = "save"
    /\ document' = SavedDocument
    /\ cli' = [cli EXCEPT !.pc = IF all_success THEN "done" ELSE "exit1"]
    /\ UNCHANGED <<svcvars, inputs, allvars, target, progress, frame, result, logger,
                   semaphore, faults, hist, progress_lock, fixed>>

\* tables whose chunk transaction is being committed
Committing == {t \in Tables : frame[t].pc \in {"primary_commit", "fallback_commit"}}

\* The process dies while a command runs (kill, power loss): every
\* coroutine is gone, a commit in flight is applied or not, the memory of
\* the service is lost and the file stays as it is.
Crash ==
    /\ cli.pc \in {"migrate", "save"}
    /\ \E applied \in SUBSET Committing :
         target' = [t \in Tables |->
                      IF t \in applied THEN target[t] \o NewRows(t) ELSE target[t]]
    /\ frame' = [t \in Tables |->
                    IF Running(frame[t]) \/ frame[t].pc = "queued"
                    THEN [frame[t] EXCEPT !.pc = "cancelled"] ELSE frame[t]]
    /\ cli' = [cli EXCEPT !.pc = "crashed"]
    /\ opc' = "crashed"
    /\ UNCHANGED <<svcvars, inputs, level_idx, table_levels, remaining_tables, results,
                   progress, result, logger, semaphore, faults, hist,
                   document, progress_lock, fixed>>

\* migrate resume, lines 775-816: the command needs the progress file;
\* a new service is loaded with it and migrate_all_tables is called,
\* without truncation
MigrateResume ==
    /\ cli.cmd = "all"
    /\ cli.pc \in {"done", "exit1", "raised", "crashed"}
    /\ document.exists
    /\ cli' = [cmd |-> "resume", pc |-> "migrate"]
    /\ progress' = load_progress(document.data)
    /\ frame' = [t \in Tables |-> IdleFrame]
    /\ result' = [t \in Tables |-> NoResult]
    /\ logger' = [t \in Tables |-> NoLog]
    /\ hist' = [t \in Tables |-> NoHist]
    /\ opc' = "init"
    /\ level_idx' = 0
    /\ table_levels' = <<>>
    /\ remaining_tables' = {}
    /\ results' = <<>>
    /\ semaphore' = 0
    /\ fixed' = <<>>
    /\ UNCHANGED <<svcvars, inputs, target, faults, document, progress_lock>>

\* ------------------------------------------------------- specification
NoDeps == [t \in Tables |-> <<>>]
Chain == [t \in Tables |-> IF t > 1 THEN <<t - 1>> ELSE <<>>]
Star == [t \in Tables |-> IF t > 1 THEN <<1>> ELSE <<>>]
Cycle == [t \in Tables |-> IF t = 1 THEN <<2>> ELSE IF t = 2 THEN <<1>> ELSE <<>>]
Join == [t \in Tables |-> IF t = NumTables THEN SortedSeq(Tables \ {t}) ELSE <<>>]

InitTable ==
    /\ cmd = "table"
    /\ cli = NoCli
    /\ table_names = {1}
    /\ config \in [batch_size : 1..TableMaxBatch, max_chunk_size : 0..MaxChunk,
                   max_concurrent_tables : {1}, use_copy : BOOLEAN]
    /\ columns \in {[t \in Tables |-> IF t = 1 THEN c ELSE "none"] : c \in {"ok", "empty"}}
    /\ deps = NoDeps
    /\ source \in {[t \in Tables |-> IF t = 1 THEN s ELSE {}] : s \in SUBSET (1..MaxPk)}
    /\ pool \in BOOLEAN
    /\ unique \in {[t \in Tables |-> u] : u \in BOOLEAN}

InitAll ==
    /\ cmd = "all"
    /\ table_names = Tables
    /\ config \in [batch_size : 1..MaxBatch, max_chunk_size : {0},
                   max_concurrent_tables : 1..MaxConcurrent, use_copy : BOOLEAN]
    /\ columns \in [Tables -> {"ok", "empty", "none"}]
    /\ deps \in {NoDeps, Chain, Star, Join, Cycle}
    /\ source = [t \in Tables |-> 1..AllMaxPk]
    /\ pool \in BOOLEAN
    /\ unique = [t \in Tables |-> t % 2 = 1]
    /\ \/ cli = NoCli
       \/ /\ cli = [cmd |-> "all", pc |-> "start"]
          /\ pool /\ \A t \in Tables : columns[t] = "ok"

Init ==
    /\ InitTable \/ InitAll
    /\ malformed = [t \in Tables |-> {}]
    /\ target = [t \in Tables |-> <<>>]
    /\ progress = [t \in Tables |-> NoRecord]
    /\ frame = [t \in Tables |-> IdleFrame]
    /\ result = [t \in Tables |-> NoResult]
    /\ logger = [t \in Tables |-> NoLog]
    /\ opc = IF cmd = "all" THEN "init" ELSE "direct"
    /\ level_idx = 0
    /\ table_levels = <<>>
    /\ remaining_tables = {}
    /\ semaphore = 0
    /\ results = <<>>
    /\ faults = MaxFaults
    /\ hist = [t \in Tables |-> NoHist]
    /\ document = NoDocument
    /\ progress_lock = FALSE
    /\ fixed = <<>>
    /\ validation = NoCall
    /\ cleaner = NoCall
    /\ retry = NoCall

Next ==
    \/ MigrateAllTables
    \/ LevelDone
    \/ MigrateAll
    \/ CommandRaises
    \/ FixSequence
    \/ FixSequenceRaises
    \/ SaveProgress
    \/ Crash
    \/ MigrateResume
    \/ \E t \in Tables :
        \/ MigrateTable(t)
        \/ RunTable(t)
        \/ AcquireConn(t)
        \/ FetchBatch(t)
        \/ FetchRaises(t)
        \/ PrimaryInsert(t)
        \/ PrimaryRaises(t)
        \/ FallbackInsert(t)
        \/ FallbackRaises(t)
        \/ Commit(t)
        \/ Interrupt(t)
        \/ Resume(t)
        \/ Rerun(t)

Spec == Init /\ [][Next]_vars

\* ------------------------------------------- topological_sort alone
\* dependency lists of at most n tables (a table may be listed twice; the
\* order of a list does not matter to the sort, so lists are ascending)
RECURSIVE DepLists(_)
DepLists(n) ==
    IF n = 0 THEN {<<>>}
    ELSE DepLists(n - 1) \cup
         {Append(l, d) : l \in {m \in DepLists(n - 1) : Len(m) = n - 1},
                         d \in Tables}

\* the list is ascending
Ascending(l) == \A i \in 1..(Len(l) - 1) : l[i] <= l[i + 1]

\* dependency maps: a dict whose keys are some of the tables
DepMaps == UNION {[D -> {l \in DepLists(MaxDeps) : Ascending(l)}] : D \in SUBSET Tables}

\* A call topological_sort(tables, dependencies) with any list of tables
\* and any dependency map; nothing is migrated.
SortInit ==
    /\ cmd = "sort"
    /\ table_names \in SUBSET Tables
    /\ deps \in DepMaps
    /\ config = [batch_size |-> 1, max_chunk_size |-> 0,
                 max_concurrent_tables |-> 1, use_copy |-> FALSE]
    /\ columns = [t \in Tables |-> "none"]
    /\ source = [t \in Tables |-> {}]
    /\ pool = FALSE
    /\ unique = [t \in Tables |-> FALSE]
    /\ malformed = [t \in Tables |-> {}]
    /\ target = [t \in Tables |-> <<>>]
    /\ progress = [t \in Tables |-> NoRecord]
    /\ frame = [t \in Tables |-> IdleFrame]
    /\ result = [t \in Tables |-> NoResult]
    /\ logger = [t \in Tables |-> NoLog]
    /\ opc = "init"
    /\ level_idx = 0
    /\ table_levels = <<>>
    /\ remaining_tables = {}
    /\ semaphore = 0
    /\ results = <<>>
    /\ faults = 0
    /\ hist = [t \in Tables |-> NoHist]
    /\ cli = NoCli
    /\ document = NoDocument
    /\ progress_lock = FALSE
    /\ fixed = <<>>
    /\ validation = NoCall
    /\ cleaner = NoCall
    /\ retry = NoCall

\* lines 57-100: the call returns the levels or raises the ValueError
TopologicalSort ==
    /\ cmd = "sort"
    /\ opc = "init"
    /\ LET sorted == topological_sort(table_names, deps)
       IN  IF sorted.raised
           THEN /\ opc' = "raised"
                /\ table_levels' = <<>>
                /\ remaining_tables' = RemainingTables(sorted.remaining)
           ELSE /\ opc' = "sorted"
                /\ table_levels' = sorted.levels
                /\ remaining_tables' = {}
    /\ UNCHANGED <<clivars, svcvars, inputs, level_idx, results, target, progress,
                   frame, result, logger, semaphore, faults, hist>>

SortNext == TopologicalSort

SortSpec == SortInit /\ [][SortNext]_vars

\* the call is synchronous: once made it runs to its return or raise
SortLive == SortSpec /\ WF_vars(SortNext)

\* ----------------- hass_migrate/services/migration_service.py (package
\* hass_migrate): MigrationService of the older package
\* the coroutine is suspended inside migrate_table
HassRunning(f) == f.pc \in {"h_acquire", "h_copy", "h_exec"}

\* lines 179-193: the cursor is exhausted; the event is logged and the
\* result returned (no status is recorded)
HassFinished(o) ==
    [f |-> [o.f EXCEPT !.pc = "returned", !.cleaned_batch = <<>>],
     p |-> o.p,
     l |-> [o.l EXCEPT !.events = Append(@, o.f.total)],
     r |-> [present |-> TRUE, success |-> (Len(o.f.errors) = 0),
            rows_migrated |-> o.f.total, errors |-> o.f.errors]]

\* lines 126-139: cursor.fetchmany and cleaning up to the next await; a
\* batch that is empty after cleaning is skipped
RECURSIVE HassNextBatch(_, _)
HassNextBatch(t, o) ==
    IF o.f.chunks = <<>> THEN HassFinished(o)
    ELSE LET cleaned == clean_batch_values(t, Head(o.f.chunks))
         IN  IF cleaned = <<>>
             THEN HassNextBatch(t, [o EXCEPT !.f.chunks = Tail(@)])
             ELSE [o EXCEPT !.f.pc = IF config.use_copy THEN "h_copy" ELSE "h_exec",
                            !.f.cleaned_batch = cleaned]

\* lines 93-125: the call up to `async with self.pg_client.pool.acquire()`;
\* cursor.execute selects the rows after last_id in primary-key order
HassEnter(t) ==
    LET p == progress[t]
        last_id == IF p.exists THEN p.last_id ELSE None
        total == IF p.exists THEN p.total ELSE 0
        rows == SortedSeq({r \in source[t] : last_id = None \/ r > last_id})
        f0 == [IdleFrame EXCEPT !.last_id = last_id, !.total = total,
                                !.chunks = Slices(rows, config.batch_size)]
        o == [f |-> f0, p |-> p, l |-> NoLog, r |-> NoResult]
    IN  IF columns[t] = "empty" \/ ~pool
        THEN [o EXCEPT !.f.pc = "raised", !.f.chunks = <<>>]
        ELSE [o EXCEPT !.f.pc = "h_acquire"]

\* ProgressTracker.should_update (progress_tracker.py lines 29-46) may
\* answer `update` for the batch_count-th call: always yes on a multiple
\* of update_interval, otherwise as the clock decides
should_update(batch_count, update) ==
    batch_count % UpdateInterval = 0 => update

\* lines 162-177: the batch is counted; the record is replaced when the
\* tracker says so; then the next batch is fetched
HassInserted(t, o, update) ==
    LET total == o.f.total + Len(o.f.cleaned_batch)
        last_id == IF update THEN Last(Head(o.f.chunks)) ELSE o.f.last_id
    IN  HassNextBatch(t, [o EXCEPT
            !.f.total = total,
            !.f.batch_count = @ + 1,
            !.f.last_id = last_id,
            !.f.chunks = Tail(@),
            !.p = IF update
                  THEN [exists |-> TRUE, last_id |-> last_id, total |-> total,
                        status |-> "none"]
                  ELSE @])

\* line 125: the connection is acquired, the first batch is fetched
HassAcquire(t) ==
    /\ frame[t].pc = "h_acquire"
    /\ Apply(t, HassNextBatch(t, Now(t)))
    /\ UNCHANGED <<clivars, svcvars, inputs, allvars, target, faults, hist>>

\* lines 141-147, 162-168: copy_records_to_table went through
HassCopy(t) ==
    /\ frame[t].pc = "h_copy"
    /\ CopyAccepts(t)
    /\ target' = [target EXCEPT ![t] = @ \o NewRows(t)]
    /\ \E update \in BOOLEAN :
        /\ should_update(frame[t].batch_count + 1, update)
        /\ Apply(t, HassInserted(t, Now(t), update))
    /\ UNCHANGED <<clivars, svcvars, inputs, allvars, faults, hist>>

\* lines 148-156: copy raised; the batch is given to _insert_executemany
HassCopyRaises(t) ==
    /\ frame[t].pc = "h_copy"
    /\ Raises(CopyAccepts(t))
    /\ Apply(t, [Now(t) EXCEPT !.f.pc = "h_exec",
                               !.l.warnings = Append(@, "copy_failed")])
    /\ hist' = [hist EXCEPT ![t].raised = @ \cup {"copy"}]
    /\ UNCHANGED <<clivars, svcvars, inputs, allvars, target>>

\* lines 154-168: _insert_executemany went through
HassExecutemany(t) ==
    /\ frame[t].pc = "h_exec"
    /\ ExecutemanyAccepts(t)
    /\ target' = [target EXCEPT ![t] = @ \o NewRows(t)]
    /\ \E update \in BOOLEAN :
        /\ should_update(frame[t].batch_count + 1, update)
        /\ Apply(t, HassInserted(t, Now(t), update))
    /\ UNCHANGED <<clivars, svcvars, inputs, allvars, faults, hist>>

\* lines 170-177: the insert raised; the error is kept and the loop goes
\* on with the next batch
HassExecutemanyRaises(t) ==
    /\ frame[t].pc = "h_exec"
    /\ Raises(ExecutemanyAccepts(t))
    /\ Apply(t, HassNextBatch(t, [Now(t) EXCEPT
                !.f.errors = Append(@, "insert"),
                !.f.chunks = Tail(@)]))
    /\ hist' = [hist EXCEPT ![t].raised = @ \cup {"executemany"}]
    /\ UNCHANGED <<clivars, svcvars, inputs, allvars, target>>

\* migrate_all_tables, lines 265-294: every table of level k that has
\* columns gets a task; all tasks of the level are awaited together
HassRunLevels(levels, k) ==
    IF k > Len(levels)
    THEN /\ opc' = "returned"
         /\ UNCHANGED <<level_idx, frame>>
    ELSE /\ opc' = "gather"
         /\ level_idx' = k
         /\ frame' = [t \in Tables |->
                IF t \in Tasks(levels[k])
                THEN [frame[t] EXCEPT !.pc = "queued"] ELSE frame[t]]

\* lines 253-264: dependencies are analysed and sorted into levels
HassMigrateAllTables ==
    /\ cmd = "hass"
    /\ opc = "init"
    /\ LET sorted == topological_sort(table_names, deps)
       IN  IF sorted.raised
           THEN /\ opc' = "raised"
                /\ table_levels' = <<>>
                /\ remaining_tables' = RemainingTables(sorted.remaining)
                /\ UNCHANGED <<level_idx, frame>>
           ELSE /\ table_levels' = sorted.levels
                /\ remaining_tables' = {}
                /\ HassRunLevels(sorted.levels, 1)
    /\ UNCHANGED <<clivars, svcvars, inputs, target, progress, result, logger, results,
                   semaphore, faults, hist>>

\* lines 279-294: the task of table t starts its migrate_table call
HassRunTable(t) ==
    /\ cmd = "hass"
    /\ opc = "gather"
    /\ frame[t].pc = "queued"
    /\ Apply(t, HassEnter(t))
    /\ hist' = Began(t)
    /\ UNCHANGED <<clivars, svcvars, inputs, allvars, target, faults>>

\* lines 288-299: the level is over; a single task that raised ends the
\* call, a raised task among several is logged and has no result
HassLevelDone ==
    /\ cmd = "hass"
    /\ opc = "gather"
    /\ LET tasks == Tasks(table_levels[level_idx])
           done == {t \in tasks : frame[t].pc = "returned"}
       IN  /\ \A t \in tasks : frame[t].pc \in {"returned", "raised"}
           /\ IF Cardinality(tasks) = 1 /\ done = {}
              THEN /\ opc' = "raised"
                   /\ UNCHANGED <<level_idx, frame, results>>
              ELSE /\ \E order \in Orders(done) :
                        results' = results \o [i \in 1..Len(order) |->
                            [table |-> order[i], result |-> result[order[i]]]]
                   /\ HassRunLevels(table_levels, level_idx + 1)
    /\ UNCHANGED <<clivars, svcvars, inputs, table_levels, remaining_tables, target,
                   progress, result, logger, semaphore, faults, hist>>

HassInit ==
    /\ cmd = "hass"
    /\ cli = NoCli
    /\ table_names = Tables
    /\ config \in [batch_size : 1..MaxBatch, max_chunk_size : {0},
                   max_concurrent_tables : 1..MaxConcurrent, use_copy : BOOLEAN]
    /\ columns \in [Tables -> {"ok", "empty", "none"}]
    /\ deps \in {NoDeps, Chain, Join, Cycle}
    /\ source = [t \in Tables |-> 1..AllMaxPk]
    /\ pool \in BOOLEAN
    /\ unique = [t \in Tables |-> t % 2 = 1]
    /\ malformed = [t \in Tables |-> {}]
    /\ target = [t \in Tables |-> <<>>]
    /\ progress = [t \in Tables |-> NoRecord]
    /\ frame = [t \in Tables |-> IdleFrame]
    /\ result = [t \in Tables |-> NoResult]
    /\ logger = [t \in Tables |-> NoLog]
    /\ opc = "init"
    /\ level_idx = 0
    /\ table_levels = <<>>
    /\ remaining_tables = {}
    /\ semaphore = 0
    /\ results = <<>>
    /\ faults = MaxFaults
    /\ hist = [t \in Tables |-> NoHist]
    /\ document = NoDocument
    /\ progress_lock = FALSE
    /\ fixed = <<>>
    /\ validation = NoCall
    /\ cleaner = NoCall
    /\ retry = NoCall

HassNext ==
    \/ HassMigrateAllTables
    \/ HassLevelDone
    \/ \E t \in Tables :
        \/ HassRunTable(t)
        \/ HassAcquire(t)
        \/ HassCopy(t)
        \/ HassCopyRaises(t)
        \/ HassExecutemany(t)
        \/ HassExecutemanyRaises(t)

HassSpec == HassInit /\ [][HassNext]_vars

\* ------------------------------------ engine.py: Migrator.update_progress
\* Tables migrated concurrently by a Migrator call update_progress after
\* each batch; only these calls are modelled.
EngineInit ==
    /\ cmd = "engine"
    /\ cli = NoCli
    /\ table_names = Tables
    /\ deps = NoDeps
    /\ config = [batch_size |-> 1, max_chunk_size |-> 0,
                 max_concurrent_tables |-> NumTables, use_copy |-> FALSE]
    /\ columns = [t \in Tables |-> "ok"]
    /\ source = [t \in Tables |-> 1..MaxPk]
    /\ pool = TRUE
    /\ unique = [t \in Tables |-> FALSE]
    /\ malformed = [t \in Tables |-> {}]
    /\ target = [t \in Tables |-> <<>>]
    /\ progress = [t \in Tables |-> NoRecord]
    /\ frame = [t \in Tables |-> IdleFrame]
    /\ result = [t \in Tables |-> NoResult]
    /\ logger = [t \in Tables |-> NoLog]
    /\ opc = "direct"
    /\ level_idx = 0
    /\ table_levels = <<>>
    /\ remaining_tables = {}
    /\ semaphore = 0
    /\ results = <<>>
    /\ faults = 0
    /\ hist = [t \in Tables |-> NoHist]
    /\ document = NoDocument
    /\ progress_lock = FALSE
    /\ fixed = <<>>
    /\ validation = NoCall
    /\ cleaner = NoCall
    /\ retry = NoCall

\* engine.py line 375: the migration of table t calls
\* update_progress(table, last_id, total) after a batch
UpdateProgress(t) ==
    /\ cmd = "engine"
    /\ frame[t].pc = "idle"
    /\ hist[t].calls < MaxCalls
    /\ \E l \in (frame[t].last_id + 1)..MaxPk :
         frame' = [frame EXCEPT ![t].pc = "lock",
                                ![t].last_id = l,
                                ![t].total = @ + (l - frame[t].last_id)]
    /\ hist' = [hist EXCEPT ![t].calls = @ + 1]
    /\ UNCHANGED <<clivars, svcvars, inputs, allvars, target, progress, result, logger,
                   semaphore, faults>>

\* a lock that lets every caller in
LockIgnored == TRUE

\* line 171, `async with self._progress_lock`: the lock can be taken
LockFree == ~progress_lock

\* line 171: the call takes the lock
LockAcquire(t) ==
    /\ cmd = "engine"
    /\ frame[t].pc = "lock"
    /\ LockFree
    /\ progress_lock' = TRUE
    /\ frame' = [frame EXCEPT ![t].pc = "write"]
    /\ UNCHANGED <<cli, document, fixed, svcvars, inputs, allvars, target, progress, result,
                   logger, semaphore, faults, hist>>

\* line 172: the record of the table is replaced in memory
StoreProgress(t) ==
    /\ cmd = "engine"
    /\ frame[t].pc = "write"
    /\ progress' = [progress EXCEPT ![t] =
                        [exists |-> TRUE, last_id |-> frame[t].last_id,
                         total |-> frame[t].total, status |-> "none"]]
    /\ frame' = [frame EXCEPT ![t].pc = "persist"]
    /\ UNCHANGED <<clivars, svcvars, inputs, allvars, target, result, logger, semaphore,
                   faults, hist>>

\* lines 173-174: the whole dictionary is written to the file; the lock
\* is released on leaving the block
PersistProgress(t) ==
    /\ cmd = "engine"
    /\ frame[t].pc = "persist"
    /\ document' = [exists |-> TRUE, data |-> progress]
    /\ progress_lock' = FALSE
    /\ frame' = [frame EXCEPT ![t].pc = "idle"]
    /\ UNCHANGED <<cli, fixed, svcvars, inputs, allvars, target, progress, result, logger,
                   semaphore, faults, hist>>

EngineNext ==
    \E t \in Tables :
        \/ UpdateProgress(t)
        \/ LockAcquire(t)
        \/ StoreProgress(t)
        \/ PersistProgress(t)

EngineSpec == EngineInit /\ [][EngineNext]_vars

\* ------------------- services/validation_service.py (both packages) and
\* models/table_metadata.py: ValidationResult
Packages == {"migrate", "hass_migrate"}

\* ValidationResult(...) as the service builds it: checksum_match keeps
\* its default
ValidationResult(table, row_count_match, mysql_count, pg_count, sample_match, errors) ==
    [table |-> table, row_count_match |-> row_count_match,
     mysql_count |-> mysql_count, pg_count |-> pg_count,
     checksum_match |-> TRUE, sample_match |-> sample_match, errors |-> errors]

\* every ValidationResult a caller can construct
ValidationResults ==
    [table : Tables, row_count_match : BOOLEAN, mysql_count : 0..MaxCount,
     pg_count : 0..MaxCount, checksum_match : BOOLEAN, sample_match : BOOLEAN,
     errors : {<<>>, <<"error">>}]

\* a property that ignores the checksum flag
all_match_unchecked(r) == r.row_count_match /\ r.sample_match

\* ValidationResult.all_match
all_match(r) == r.row_count_match /\ r.checksum_match /\ r.sample_match

\* the values sample_match can take in validate_table: the migrate package
\* has a placeholder; hass_migrate compares a sample when the counts agree
\* and are not 0 (_sample_compare returns a boolean and never raises)
SampleMatches(package, row_count_match, mysql_count) ==
    IF package = "hass_migrate" /\ row_count_match /\ mysql_count > 0
    THEN BOOLEAN ELSE {TRUE}

\* lists of up to n tables, repetitions included
RECURSIVE Requests(_)
Requests(n) ==
    IF n = 0 THEN {<<>>}
    ELSE Requests(n - 1) \cup
         {Append(l, t) : l \in {r \in Requests(n - 1) : Len(r) = n - 1}, t \in Tables}

\* the loop goes on with the next table, or the list is returned
Advance(v) ==
    [v EXCEPT !.i = @ + 1,
              !.pc = IF v.i = Len(v.table_names) THEN "returned" ELSE "validate"]

\* an except branch that gives the batch up
OnErrorAbort(v, e) ==
    [v EXCEPT !.pc = "returned", !.logged = Append(@, "error"),
              !.raised = @ \cup {v.i}]

\* validate_all_tables lines 95-105: the error is logged and a result
\* holding it is appended
OnError(v, e) ==
    Advance([v EXCEPT
        !.logged = Append(@, "error"),
        !.raised = @ \cup {v.i},
        !.results = Append(@, ValidationResult(v.table_names[v.i], FALSE, 0, 0,
                                               TRUE, <<e>>))])

\* validate_all_tables line 78: the call starts with an empty list
ValidateAllTables ==
    /\ validation.pc = "init"
    /\ validation' = [validation EXCEPT
            !.i = 1,
            !.pc = IF validation.table_names = <<>> THEN "returned" ELSE "validate"]
    /\ UNCHANGED <<clivars, cleaner, retry, inputs, allvars, target, progress,
                   frame, result, logger, semaphore, faults, hist>>

\* validate_table returns (lines 47-63), its result is appended and
\* logged (lines 81-94)
ValidateTable ==
    /\ validation.pc = "validate"
    /\ LET t == validation.table_names[validation.i]
           mysql_count == validation.mysql_rows[t]
           pg_count == validation.pg_rows[t]
           row_count_match == (mysql_count = pg_count)
       IN  \E sample_match \in SampleMatches(validation.package, row_count_match,
                                             mysql_count) :
            LET r == ValidationResult(t, row_count_match, mysql_count, pg_count,
                                      sample_match, <<>>)
            IN  validation' = Advance([validation EXCEPT
                    !.results = Append(@, r),
                    !.logged = Append(@, IF all_match(r) THEN "passed" ELSE "failed")])
    /\ UNCHANGED <<clivars, cleaner, retry, inputs, allvars, target, progress,
                   frame, result, logger, semaphore, faults, hist>>

\* one of the count_rows calls of validate_table raises
ValidateTableRaises ==
    /\ validation.pc = "validate"
    /\ \E e \in {"mysql_error", "pg_error"} : validation' = OnError(validation, e)
    /\ UNCHANGED <<clivars, cleaner, retry, inputs, allvars, target, progress,
                   frame, result, logger, semaphore, faults, hist>>

\* a caller reads the all_match property of a result
AllMatch ==
    /\ validation.pc = "result"
    /\ validation' = [validation EXCEPT !.pc = "evaluated",
                                        !.all_match = all_match(validation.result)]
    /\ UNCHANGED <<clivars, cleaner, retry, inputs, allvars, target, progress,
                   frame, result, logger, semaphore, faults, hist>>

\* the state shared by the specifications of the helpers: no migration runs
Idle ==
    /\ cli = NoCli
    /\ table_names = Tables
    /\ config = [batch_size |-> 1, max_chunk_size |-> 0,
                 max_concurrent_tables |-> 1, use_copy |-> FALSE]
    /\ columns = [t \in Tables |-> "ok"]
    /\ deps = NoDeps
    /\ source = [t \in Tables |-> {}]
    /\ pool = TRUE
    /\ unique = [t \in Tables |-> TRUE]
    /\ malformed = [t \in Tables |-> {}]
    /\ target = [t \in Tables |-> <<>>]
    /\ progress = [t \in Tables |-> NoRecord]
    /\ frame = [t \in Tables |-> IdleFrame]
    /\ result = [t \in Tables |-> NoResult]
    /\ logger = [t \in Tables |-> NoLog]
    /\ opc = "init"
    /\ level_idx = 0
    /\ table_levels = <<>>
    /\ remaining_tables = {}
    /\ semaphore = 0
    /\ results = <<>>
    /\ faults = 0
    /\ hist = [t \in Tables |-> NoHist]
    /\ document = NoDocument
    /\ progress_lock = FALSE
    /\ fixed = <<>>

ValidateInit ==
    /\ cmd = "validate"
    /\ Idle
    /\ \E call \in {"init", "result"} :
        validation \in [pc : {call},
                        package : IF call = "init" THEN Packages ELSE {"migrate"},
                        table_names : IF call = "init" THEN Requests(MaxRequests)
                                      ELSE {<<>>},
                        mysql_rows : IF call = "init" THEN [Tables -> 0..MaxCount]
                                     ELSE {[t \in Tables |-> 0]},
                        pg_rows : IF call = "init" THEN [Tables -> 0..MaxCount]
                                  ELSE {[t \in Tables |-> 0]},
                        i : {0}, results : {<<>>}, logged : {<<>>}, raised : {{}},
                        result : IF call = "init"
                                 THEN {ValidationResult(1, FALSE, 0, 0, TRUE, <<>>)}
                                 ELSE ValidationResults,
                        all_match : {FALSE}]
    /\ cleaner = NoCall
    /\ retry = NoCall

ValidateNext ==
    \/ ValidateAllTables
    \/ ValidateTable
    \/ ValidateTableRaises
    \/ AllMatch

ValidateSpec == ValidateInit /\ [][ValidateNext]_vars

\* ---------------- hass_migrate/utils/data_cleaner.py and the clean_value
\* of migrate/engine.py
BOOL_COLUMNS ==
    {<<"recorder_runs", "closed_incorrect">>, <<"statistics_meta", "has_mean">>,
     <<"statistics_meta", "has_sum">>}

TIMESTAMP_COLUMNS ==
    {<<"schema_changes", "changed">>, <<"recorder_runs", "start">>,
     <<"recorder_runs", "end">>, <<"recorder_runs", "created">>,
     <<"statistics_runs", "start">>, <<"statistics", "created">>,
     <<"statistics", "start">>, <<"statistics", "last_reset">>,
     <<"statistics_short_term", "created">>, <<"statistics_short_term", "start">>,
     <<"statistics_short_term", "last_reset">>, <<"events", "time_fired">>,
     <<"states", "last_changed">>, <<"states", "last_updated">>}

\* pairs of neither list
OtherColumns ==
    {<<"events", "event_id">>, <<"states", "state_id">>, <<"recorder_runs", "run_id">>}

\* Python values by type: s the characters of a str, b a bool, n an int, a
\* finite float or the wall clock of a datetime, special "inf"/"nan" for
\* a float and "aware" for a datetime with tzinfo, offset its UTC offset
NoneValue ==
    [type |-> "NoneType", s |-> <<>>, b |-> FALSE, n |-> 0, special |-> "none",
     offset |-> 0]
Str(s) == [NoneValue EXCEPT !.type = "str", !.s = s]
Bool(b) == [NoneValue EXCEPT !.type = "bool", !.b = b]
IntValue(n) == [NoneValue EXCEPT !.type = "int", !.n = n]
Float(n) == [NoneValue EXCEPT !.type = "float", !.n = n]
NonFinite(special) == [NoneValue EXCEPT !.type = "float", !.special = special]
Naive(n) == [NoneValue EXCEPT !.type = "datetime", !.n = n]
Aware(n, offset) ==
    [NoneValue EXCEPT !.type = "datetime", !.n = n, !.special = "aware",
                      !.offset = offset]
Bytes == [NoneValue EXCEPT !.type = "bytes"]

Tuples(S, n) == UNION {[1..k -> S] : k \in 0..n}

\* numbers up to MaxTimestamp convert; the three above it stand for the
\* numbers datetime.fromtimestamp rejects with each of its errors
Numbers == 0..(MaxTimestamp + 3)

Values ==
    {NoneValue, Bytes}
    \cup {Str(s) : s \in Tuples({"a", "NUL"}, MaxChars)}
    \cup {Bool(b) : b \in BOOLEAN}
    \cup {IntValue(n) : n \in Numbers}
    \cup {Float(n) : n \in Numbers}
    \cup {NonFinite(x) : x \in {"inf", "nan"}}
    \cup {Naive(n) : n \in 0..MaxTimestamp}
    \cup {Aware(n, o) : n \in 0..MaxTimestamp, o \in {-1, 0, 1}}

\* float(value) for a bool, an int or a finite float
AsNumber(value) == IF value.type = "bool" THEN (IF value.b THEN 1 ELSE 0) ELSE value.n

\* what datetime.fromtimestamp(float(value), tz=timezone.utc) raises
FromTimestampError(value) ==
    IF value.special = "nan" THEN "ValueError"
    ELSE IF value.special = "inf" THEN "OverflowError"
    ELSE IF AsNumber(value) <= MaxTimestamp THEN "none"
    ELSE IF AsNumber(value) = MaxTimestamp + 1 THEN "ValueError"
    ELSE IF AsNumber(value) = MaxTimestamp + 2 THEN "OSError"
    ELSE "OverflowError"

\* the except clause of the conversion: data_cleaner.py line 108,
\* engine.py line 138
Caught(impl) ==
    IF impl = "data_cleaner" THEN {"ValueError", "OSError", "OverflowError"}
    ELSE {"ValueError", "OSError"}

\* a replace that removes one NUL character only
replace_first(s) ==
    IF \E i \in 1..Len(s) : s[i] = "NUL"
    THEN LET i == Min({j \in 1..Len(s) : s[j] = "NUL"})
         IN  SubSeq(s, 1, i - 1) \o SubSeq(s, i + 1, Len(s))
    ELSE s

\* value.replace("\x00", "")
replace(s) == SelectSeq(s, LAMBDA c : c # "NUL")

\* a conversion that takes every integer for a boolean
in_any(n) == TRUE

\* value in (0, 1)
in_0_1(n) == n \in {0, 1}

Gives(value) == [value |-> value, warnings |-> <<>>, raised |-> "none"]
Warned(value, warning) == [value |-> value, warnings |-> <<warning>>, raised |-> "none"]

\* clean_value of data_cleaner.py (lines 40-115) and of engine.py (lines
\* 79-146): the value returned, the warnings logged, the exception raised
clean_value(impl, table, column, value) ==
    IF value.type = "NoneType" THEN Gives(NoneValue)
    ELSE IF value.type = "str"
    THEN IF replace(value.s) = <<>> THEN Gives(NoneValue)
         ELSE Gives(Str(replace(value.s)))
    ELSE IF <<table, column>> \in BOOL_COLUMNS
    THEN IF value.type = "bool" THEN Gives(value)
         ELSE IF value.type = "int"
         THEN IF in_0_1(value.n) THEN Gives(Bool(value.n # 0))
              ELSE Warned(value, "non_boolean_integer")
         ELSE Gives(value)
    ELSE IF value.type = "datetime"
    THEN IF value.special # "aware" THEN Gives(value)
         ELSE Gives(Naive(value.n - value.offset))
    ELSE IF <<table, column>> \in TIMESTAMP_COLUMNS
            /\ value.type \in {"bool", "int", "float"}
    THEN LET e == FromTimestampError(value)
         IN  IF e = "none" THEN Gives(Naive(AsNumber(value)))
             ELSE IF e \in Caught(impl) THEN Warned(value, "invalid_timestamp")
             ELSE [value |-> value, warnings |-> <<>>, raised |-> e]
    ELSE Gives(value)

\* a length check that lets longer rows through
len_at_least(row, expected_cols) == Len(row) >= expected_cols

\* clean_batch_values line 140: the row has as many cells as columns
len_ok(row, expected_cols) == Len(row) = expected_cols

\* clean_batch_values (lines 118-152) on rows of cells: the rows
\* returned and the warnings of the skipped rows
clean_batch_cells(table, cols, rows) ==
    IF rows = <<>> THEN Gives(<<>>)
    ELSE LET kept == SelectSeq(rows, LAMBDA row : len_ok(row, Len(cols)))
             cleaned_row(row) ==
                [k \in 1..Len(cols) |->
                    clean_value("data_cleaner", table, cols[k], row[k]).value]
         IN  [value |-> [i \in 1..Len(kept) |-> cleaned_row(kept[i])],
              warnings |-> [i \in 1..(Len(rows) - Len(kept)) |-> "row_skipped"],
              raised |-> "none"]

\* clean_value is called
CleanValue ==
    /\ cleaner.pc = "init"
    /\ cleaner.call = "clean_value"
    /\ LET out == clean_value(cleaner.impl, cleaner.table, cleaner.column,
                              cleaner.value)
       IN  cleaner' = [cleaner EXCEPT
                !.out = out,
                !.pc = IF out.raised = "none" THEN "cleaned" ELSE "raised"]
    /\ UNCHANGED <<clivars, validation, retry, inputs, allvars, target, progress,
                   frame, result, logger, semaphore, faults, hist>>

\* clean_value is called on the value it returned
CleanValueAgain ==
    /\ cleaner.pc = "cleaned"
    /\ cleaner.call = "clean_value"
    /\ LET again == clean_value(cleaner.impl, cleaner.table, cleaner.column,
                                cleaner.out.value)
       IN  cleaner' = [cleaner EXCEPT
                !.again = again,
                !.pc = IF again.raised = "none" THEN "recleaned" ELSE "raised"]
    /\ UNCHANGED <<clivars, validation, retry, inputs, allvars, target, progress,
                   frame, result, logger, semaphore, faults, hist>>

\* clean_batch_values is called
CleanBatchValues ==
    /\ cleaner.pc = "init"
    /\ cleaner.call = "clean_batch_values"
    /\ cleaner' = [cleaner EXCEPT
            !.out = clean_batch_cells(cleaner.table, cleaner.columns, cleaner.rows),
            !.pc = "cleaned"]
    /\ UNCHANGED <<clivars, validation, retry, inputs, allvars, target, progress,
                   frame, result, logger, semaphore, faults, hist>>

\* the cells and column lists of the batches
BatchCells == {IntValue(1), Str(<<"NUL">>)}
BatchColumns == {<<>>, <<"closed_incorrect">>, <<"run_id", "closed_incorrect">>}

CleanInit ==
    /\ cmd = "clean"
    /\ Idle
    /\ validation = NoCall
    /\ retry = NoCall
    /\ \/ \E pair \in BOOL_COLUMNS \cup TIMESTAMP_COLUMNS \cup OtherColumns :
            cleaner \in [pc : {"init"}, call : {"clean_value"},
                         impl : {"data_cleaner", "engine"},
                         table : {pair[1]}, column : {pair[2]}, value : Values,
                         columns : {<<>>}, rows : {<<>>},
                         out : {Gives(NoneValue)}, again : {Gives(NoneValue)}]
       \/ cleaner \in [pc : {"init"}, call : {"clean_batch_values"},
                       impl : {"data_cleaner"},
                       table : {"recorder_runs"}, column : {""}, value : {NoneValue},
                       columns : BatchColumns,
                       rows : Tuples(Tuples(BatchCells, MaxCells), MaxRows),
                       out : {Gives(NoneValue)}, again : {Gives(NoneValue)}]

CleanNext ==
    \/ CleanValue
    \/ CleanValueAgain
    \/ CleanBatchValues

CleanSpec == CleanInit /\ [][CleanNext]_vars

\* ------------------- engine.py: Migrator._insert_batch_with_retry and
\* Migrator._insert_rows_individually
max_retries == 3

\* a loop that never takes the row-by-row branch
LastAttemptNever(attempt) == FALSE

\* line 433: attempt == max_retries - 1
LastAttempt(attempt) == attempt = max_retries - 1

\* _insert_rows_individually, lines 401-413: the loop goes on with the
\* next row; after the last row the count is returned
NextRow(r) ==
    IF r.row > Len(r.cleaned_batch)
    THEN [r EXCEPT !.pc = "returned", !.returned = r.inserted_count]
    ELSE r

\* a row-by-row pass that gives up at the first rejected row
SkipRowAbort(r) ==
    [r EXCEPT !.executed = Append(@, r.cleaned_batch[r.row]),
              !.skipped_count = @ + 1,
              !.row = Len(r.cleaned_batch) + 1]

\* lines 398-405: the row is skipped, the loop goes on
SkipRow(r) ==
    [r EXCEPT !.executed = Append(@, r.cleaned_batch[r.row]),
              !.skipped_count = @ + 1,
              !.row = @ + 1]

\* lines 423-428: conn.executemany went through, the batch size is returned
Executemany ==
    /\ retry.pc = "executemany"
    /\ retry' = [retry EXCEPT !.pc = "returned",
                              !.calls = Append(@, "executemany"),
                              !.returned = Len(retry.cleaned_batch)]
    /\ UNCHANGED <<clivars, validation, cleaner, inputs, allvars, target, progress,
                   frame, result, logger, semaphore, faults, hist>>

\* lines 429-446: conn.executemany raised; on the last attempt the rows
\* are inserted one by one, otherwise the call sleeps
ExecutemanyRaises ==
    /\ retry.pc = "executemany"
    /\ retry' = IF LastAttempt(retry.attempt)
                THEN NextRow([retry EXCEPT
                        !.pc = "execute",
                        !.calls = Append(Append(@, "executemany"), "individually"),
                        !.row = 1, !.inserted_count = 0])
                ELSE [retry EXCEPT !.pc = "sleep",
                                   !.calls = Append(@, "executemany")]
    /\ UNCHANGED <<clivars, validation, cleaner, inputs, allvars, target, progress,
                   frame, result, logger, semaphore, faults, hist>>

\* line 446 and the for statement of line 423: asyncio.sleep(1) is over;
\* the next attempt starts, or the loop is exhausted and 0 is returned
Sleep ==
    /\ retry.pc = "sleep"
    /\ retry' = [retry EXCEPT
            !.calls = Append(@, "sleep"),
            !.slept = Append(@, 1),
            !.attempt = @ + 1,
            !.pc = IF retry.attempt + 1 < max_retries THEN "executemany"
                   ELSE "returned",
            !.returned = 0]
    /\ UNCHANGED <<clivars, validation, cleaner, inputs, allvars, target, progress,
                   frame, result, logger, semaphore, faults, hist>>

\* lines 402-404: conn.execute of the current row went through
Execute ==
    /\ retry.pc = "execute"
    /\ retry.cleaned_batch[retry.row] \notin retry.rejects
    /\ retry' = NextRow([retry EXCEPT
            !.executed = Append(@, retry.cleaned_batch[retry.row]),
            !.inserted_count = @ + 1,
            !.row = @ + 1])
    /\ UNCHANGED <<clivars, validation, cleaner, inputs, allvars, target, progress,
                   frame, result, logger, semaphore, faults, hist>>

\* lines 405-412: conn.execute of the current row raised; the row is skipped
ExecuteRaises ==
    /\ retry.pc = "execute"
    /\ retry.cleaned_batch[retry.row] \in retry.rejects
    /\ retry' = NextRow(SkipRow(retry))
    /\ UNCHANGED <<clivars, validation, cleaner, inputs, allvars, target, progress,
                   frame, result, logger, semaphore, faults, hist>>

\* migrate_table, lines 360-368: a table of FOREIGN_KEY_TABLES is inserted
\* row by row, any other table with _insert_batch_with_retry
InsertBatch ==
    /\ retry.pc = "insert"
    /\ retry' = IF retry.foreign_key
                THEN NextRow([retry EXCEPT !.pc = "execute",
                                           !.calls = Append(@, "individually"),
                                           !.row = 1, !.inserted_count = 0])
                ELSE [retry EXCEPT !.pc = "executemany"]
    /\ UNCHANGED <<clivars, validation, cleaner, inputs, allvars, target, progress,
                   frame, result, logger, semaphore, faults, hist>>

\* migrate_table, lines 370-375: the count is added to the total
AddTotal ==
    /\ retry.pc = "returned"
    /\ retry' = [retry EXCEPT !.pc = "counted", !.total = @ + retry.returned]
    /\ UNCHANGED <<clivars, validation, cleaner, inputs, allvars, target, progress,
                   frame, result, logger, semaphore, faults, hist>>

\* foreign_key: the table is in FOREIGN_KEY_TABLES; rejects: the rows whose
\* INSERT the target refuses (a foreign key without its parent row);
\* total_migrated: the total the progress record held (lines 318, 337)
RetryInit ==
    /\ cmd = "retry"
    /\ Idle
    /\ validation = NoCall
    /\ cleaner = NoCall
    /\ retry \in {r \in [pc : {"insert"}, foreign_key : BOOLEAN,
                  cleaned_batch : Tuples(1..MaxPk, MaxBatch) \ {<<>>},
                  rejects : SUBSET (1..MaxPk), total_migrated : 0..1, total : 0..1,
                  attempt : {0}, calls : {<<>>}, slept : {<<>>}, row : {0},
                  executed : {<<>>}, inserted_count : {0}, skipped_count : {0},
                  returned : {0}] : r.total = r.total_migrated}

RetryNext ==
    \/ InsertBatch
    \/ AddTotal
    \/ Executemany
    \/ ExecutemanyRaises
    \/ Sleep
    \/ Execute
    \/ ExecuteRaises

RetrySpec == RetryInit /\ [][RetryNext]_vars

\* every await of the call is eventually resumed by the event loop
RetryLive == RetrySpec /\ WF_vars(RetryNext)

\* ------------------------ one migrate_table call over rows cleaning drops
\* One call of migrate_table for a table without progress, into an empty
\* target; any set of source rows may have a cell count that differs from
\* len(columns), so that clean_batch_values drops them (data_cleaner.py
\* lines 139-146).
TableInit ==
    /\ cmd = "table"
    /\ cli = NoCli
    /\ table_names = {1}
    /\ config \in [batch_size : 1..MaxBatch, max_chunk_size : 0..MaxChunk,
                   max_concurrent_tables : {1}, use_copy : BOOLEAN]
    /\ columns = [t \in Tables |-> IF t = 1 THEN "ok" ELSE "none"]
    /\ deps = NoDeps
    /\ source \in {[t \in Tables |-> IF t = 1 THEN s ELSE {}] : s \in SUBSET (1..MaxPk)}
    /\ malformed \in {[t \in Tables |-> IF t = 1 THEN m ELSE {}] : m \in SUBSET (1..MaxPk)}
    /\ \A t \in Tables : malformed[t] \subseteq source[t]
    /\ pool = TRUE
    /\ unique \in {[t \in Tables |-> u] : u \in BOOLEAN}
    /\ target = [t \in Tables |-> <<>>]
    /\ progress = [t \in Tables |-> NoRecord]
    /\ frame = [t \in Tables |-> IdleFrame]
    /\ result = [t \in Tables |-> NoResult]
    /\ logger = [t \in Tables |-> NoLog]
    /\ opc = "direct"
    /\ level_idx = 0
    /\ table_levels = <<>>
    /\ remaining_tables = {}
    /\ semaphore = 0
    /\ results = <<>>
    /\ faults = MaxFaults
    /\ hist = [t \in Tables |-> NoHist]
    /\ document = NoDocument
    /\ progress_lock = FALSE
    /\ fixed = <<>>
    /\ validation = NoCall
    /\ cleaner = NoCall
    /\ retry = NoCall

TableNext ==
    \E t \in Tables :
        \/ MigrateTable(t)
        \/ AcquireConn(t)
        \/ FetchBatch(t)
        \/ FetchRaises(t)
        \/ PrimaryInsert(t)
        \/ PrimaryRaises(t)
        \/ FallbackInsert(t)
        \/ FallbackRaises(t)
        \/ Commit(t)

TableSpec == TableInit /\ [][TableNext]_vars

\* every await of the call is eventually resumed by the event loop
TableLive == TableSpec /\ WF_vars(TableNext)

TypeOK ==
    /\ \A t \in Tables : frame[t].pc \in {"idle", "queued", "acquire", "fetch",
            "primary", "primary_commit", "fallback", "fallback_commit",
            "returned", "raised", "cancelled", "lock", "write", "persist",
            "h_acquire", "h_copy", "h_exec"}
    /\ semaphore \in 0..MaxConcurrent
    /\ faults \in 0..MaxFaults
    /\ validation.pc \in {"none", "init", "validate", "returned", "result", "evaluated"}
    /\ cleaner.pc \in {"none", "init", "cleaned", "recleaned", "raised"}
    /\ retry.pc \in {"none", "insert", "executemany", "sleep", "execute", "returned",
                     "counted"}

\* ================================================================ claims
Rows(t) == Cardinality(source[t])

\* the call of table t has returned a result
Returned(t) == result[t].present

\* The progress record the current call of t found records exactly the
\* rows the target held: K rows committed, K recorded, cursor on the K-th.
Consistent(t) ==
    /\ Len(hist[t].start_target) = hist[t].start.total
    /\ hist[t].start_target =
            SortedSeq({p \in source[t] : p <= hist[t].start.last_id})

\* C1 - Resume correctness: a call that resumes from a progress record
\* which records exactly the K committed rows reads only rows whose primary
\* key is greater than the recorded last_id, and when it completes it has
\* inserted the remaining N-K rows, total is N and the target holds the
\* source rows once each, in order, as after an uninterrupted run.
ResumeCorrect ==
    \A t \in Tables :
        (hist[t].calls >= 2 /\ Consistent(t)) =>
            /\ \A p \in hist[t].reads : p > hist[t].start.last_id
            /\ (Returned(t) /\ result[t].success) =>
                /\ Len(target[t]) - Len(hist[t].start_target)
                        = Rows(t) - hist[t].start.total
                /\ result[t].rows_migrated = Rows(t)
                /\ progress[t].total = Rows(t)
                /\ target[t] = SortedSeq(source[t])

\* a call interrupted after K of N rows (0 < K < N) was resumed and completed
ResumeWitness ==
    \E t \in Tables :
        /\ hist[t].calls = 2
        /\ Consistent(t)
        /\ hist[t].start.status = "in_progress"
        /\ hist[t].start.total > 0
        /\ hist[t].start.total < Rows(t)
        /\ Returned(t) /\ result[t].success

\* migrate_table calls that have started and not yet returned
InFlight == {t \in Tables : Running(frame[t])}

\* C2 - Concurrency bound: under migrate_all_tables the number of
\* migrate_table calls that have started and not yet returned never exceeds
\* max_concurrent_tables, also when the level holds more tables.
ConcurrencyBound ==
    cmd = "all" => Cardinality(InFlight) <= config.max_concurrent_tables

\* N calls run while another table of the same level waits for a permit
ConcurrencyWitness ==
    /\ cmd = "all"
    /\ Cardinality(InFlight) = config.max_concurrent_tables
    /\ \E t \in Tables : frame[t].pc = "queued"
    /\ Cardinality(Tasks(table_levels[level_idx])) > config.max_concurrent_tables

\* the level topological_sort put table t in (0 before the sort)
LevelOf(t) ==
    IF \E k \in 1..Len(table_levels) : t \in table_levels[k]
    THEN CHOOSE k \in 1..Len(table_levels) : t \in table_levels[k]
    ELSE 0

\* C3 - Level barrier: when a migrate_table call of a table has started,
\* every task of every earlier level has returned, whether it succeeded,
\* returned a failed result or raised.
LevelBarrier ==
    \A t, u \in Tables :
        (cmd = "all" /\ hist[t].calls > 0 /\ columns[u] # "none"
            /\ LevelOf(u) < LevelOf(t)) =>
                /\ frame[u].pc = "returned"
                /\ Returned(u)

\* a table runs after a table of the level before it raised and another failed
BarrierWitness ==
    \E t, u, v \in Tables :
        /\ cmd = "all"
        /\ Running(frame[t])
        /\ LevelOf(u) + 1 = LevelOf(t) /\ LevelOf(v) + 1 = LevelOf(t)
        /\ Returned(u) /\ result[u].errors = <<"exc">>
        /\ Returned(v) /\ ~result[v].success /\ hist[v].raised # {}

\* the call of t made no step that starts a new call
SameCall(t) == hist'[t].calls = hist[t].calls

\* source rows of the current call that precede the chunk being inserted
Before(t) == {p \in source[t] : /\ p > hist[t].start.last_id
                                /\ p < Head(Head(frame[t].chunks))}

\* while a chunk is being inserted, the record holds every earlier chunk
Advanced(t) ==
    InChunk(frame[t]) =>
        /\ progress[t].last_id = IF Before(t) = {} THEN hist[t].start.last_id
                                 ELSE Max(Before(t))
        /\ progress[t].total = hist[t].start.total + Cardinality(Before(t))
        /\ frame[t].last_id = progress[t].last_id
        /\ frame[t].total = progress[t].total

\* C4 - Chunk ordering: whenever the insert of a chunk is under way the
\* progress record (last_id, total) already covers every chunk before it,
\* and during one call last_id and total never decrease.
ChunkOrdering ==
    [][\A t \in Tables :
         /\ Advanced(t)'
         /\ SameCall(t) =>
              /\ progress'[t].last_id >= progress[t].last_id
              /\ progress'[t].total >= progress[t].total]_vars

\* the second chunk of a fresh call is being inserted
ChunkWitness ==
    \E t \in Tables :
        /\ InChunk(frame[t])
        /\ ~hist[t].start.exists
        /\ progress[t].total > 0
        /\ progress[t].last_id = Max(Before(t))

\* the call of t is over: it returned a result or raised
Over(t) == hist[t].calls > 0 /\ (Returned(t) \/ frame[t].pc = "raised")

Inserted(t) == Len(target[t]) - Len(hist[t].start_target)

\* C6 - Failure keeps partial credit: when executemany fails terminally
\* the status is failed, last_id and total are those after the last
\* committed chunk (None and 0 when a fresh call committed none), and the
\* result has success false, that total and the ordered errors.
PartialCredit ==
    \A t \in Tables :
        (Returned(t) /\ "executemany" \in hist[t].raised) =>
            /\ progress[t].status = "failed"
            /\ progress[t].last_id = hist[t].good.last_id
            /\ progress[t].total = hist[t].good.total
            /\ Consistent(t) =>
                /\ progress[t].total = hist[t].start.total + Inserted(t)
                /\ progress[t].last_id = IF Inserted(t) = 0
                                         THEN hist[t].start.last_id
                                         ELSE Last(target[t])
            /\ (~hist[t].start.exists /\ target[t] = <<>>) =>
                    (progress[t].last_id = None /\ progress[t].total = 0)
            /\ ~result[t].success
            /\ result[t].rows_migrated = progress[t].total
            /\ Len(result[t].errors) = 2
            /\ result[t].errors[1] \in {"insert", "insert_exec"}
            /\ result[t].errors[2] = "unexpected"

\* a table failed on its second chunk and keeps the first
PartialWitness ==
    \E t \in Tables :
        /\ Returned(t) /\ "executemany" \in hist[t].raised
        /\ ~hist[t].start.exists
        /\ progress[t].total > 0
        /\ progress[t].total < Rows(t)

\* C7 - Bounded attempts: a chunk gets at most one bulk copy and at most
\* one executemany (without use_copy exactly one executemany, no copy and
\* no fallback); after the terminal failure the call makes no further
\* insert and no further read.
BoundedAttempts ==
    [][\A t \in Tables :
         /\ frame'[t].copy_attempts <= 1
         /\ frame'[t].exec_attempts <= 1
         /\ ~config.use_copy =>
              /\ frame'[t].copy_attempts = 0
              /\ frame'[t].pc \notin {"fallback", "fallback_commit"}
              /\ frame'[t].pc = "primary_commit" => frame'[t].exec_attempts = 1
         /\ frame'[t].pc = "fallback" =>
              (frame'[t].copy_attempts = 1 /\ frame'[t].exec_attempts = 0)
         /\ "executemany" \in hist'[t].raised => frame'[t].pc = "returned"
         /\ ("executemany" \in hist[t].raised /\ SameCall(t)) =>
              /\ target'[t] = target[t]
              /\ hist'[t].reads = hist[t].reads
              /\ frame'[t] = frame[t]]_vars

\* copy and fallback of one chunk both raised
AttemptsWitness ==
    \E t \in Tables :
        /\ Returned(t)
        /\ frame[t].copy_attempts = 1
        /\ frame[t].exec_attempts = 1
        /\ result[t].errors = <<"insert_exec", "unexpected">>

\* source rows the current call of t has to migrate
Remaining(t) == {p \in source[t] : p > hist[t].start.last_id}

\* C8 - Copy fallback: after a bulk copy raised, the chunk is committed by
\* executemany: its rows are added to the total, the cursor moves to its
\* last primary key, the warning is logged, and a call in which nothing but
\* copies raised still ends completed with success.
CopyFallback ==
    [][\A t \in Tables :
         /\ (frame[t].pc = "fallback_commit"
                /\ frame'[t].pc \notin {"fallback_commit", "cancelled"}) =>
              /\ frame[t].cleaned_batch = clean_batch_values(t, Head(frame[t].chunks))
              /\ Range(frame[t].cleaned_batch) \subseteq Range(target'[t])
              /\ progress'[t].total = progress[t].total + Len(frame[t].cleaned_batch)
              /\ progress'[t].last_id = Last(Head(frame[t].chunks))
              /\ "copy_failed" \in Range(logger'[t].warnings)
         /\ (Returned(t) /\ hist[t].raised = {"copy"} =>
              /\ progress[t].status = "completed"
              /\ result[t].success
              /\ result[t].rows_migrated =
                    hist[t].start.total + Cardinality(Remaining(t))
              /\ "copy_failed" \in Range(logger[t].warnings))']_vars

\* a table whose copy raised ended completed with its rows counted
FallbackWitness ==
    \E t \in Tables :
        /\ Returned(t) /\ hist[t].raised = {"copy"}
        /\ result[t].success
        /\ result[t].rows_migrated = Rows(t)
        /\ Rows(t) > 0

\* the call of t reached the end of the source without a terminal error
Exhausted(t) ==
    /\ Returned(t)
    /\ columns[t] = "ok" /\ pool
    /\ hist[t].raised \subseteq {"copy"}

Listed == {t \in Tables : columns[t] # "none"}

\* C10 - Failure isolation: migrate_all_tables returns one result for
\* every table that has a column list; a table whose call raised has
\* success false and the total of its record as rows_migrated; every other
\* table was migrated, whatever failed before it.
FailureIsolation ==
    opc = "returned" =>
        /\ Len(results) = Cardinality(Listed)
        /\ \A t \in Listed :
             \E i \in 1..Len(results) :
                results[i] = [table |-> t, result |-> result[t]]
        /\ \A t \in Tables : columns[t] = "empty" =>
             /\ Returned(t) /\ ~result[t].success
             /\ result[t].rows_migrated =
                    IF progress[t].exists THEN progress[t].total ELSE 0
        /\ \A t \in Tables : columns[t] = "ok" =>
             /\ hist[t].calls = 1
             /\ Returned(t)
             /\ Exhausted(t) => (result[t].success /\ target[t] = SortedSeq(source[t]))

\* a raising table and a failing table did not stop a sibling or a later level
IsolationWitness ==
    /\ opc = "returned"
    /\ \E t, u, v \in Tables :
        /\ columns[t] = "empty"
        /\ columns[u] = "ok" /\ ~result[u].success
        /\ LevelOf(v) > LevelOf(t) /\ LevelOf(v) > LevelOf(u)
        /\ result[v].success /\ target[v] = SortedSeq(source[v])

\* ---------------------------------------------------- topological_sort
\* dependencies of t that are in the list given to the sort
Listed_deps(t) ==
    IF t \in DOMAIN deps THEN Range(deps[t]) \cap table_names ELSE {}

RECURSIVE ReachN(_, _)
ReachN(S, n) ==
    IF n = 0 THEN S
    ELSE ReachN(S \cup UNION {Listed_deps(u) : u \in S}, n - 1)

\* listed tables t depends on, directly or through other listed tables
Reach(t) == ReachN(Listed_deps(t), NumTables)

\* t is on a cycle of dependencies among the listed tables
OnCycle(t) == t \in Reach(t)

HasCycle == \E t \in table_names : OnCycle(t)

\* the tables placed in the returned levels
Placed == UNION {table_levels[k] : k \in 1..Len(table_levels)}

\* C11 - Dependency ordering: when topological_sort returns levels, every
\* dependency of a listed table that is itself listed is in a strictly
\* earlier level than the table.
DependencyOrdering ==
    (cmd = "sort" /\ opc = "sorted") =>
        \A t \in table_names : \A d \in Listed_deps(t) :
            /\ LevelOf(d) > 0
            /\ LevelOf(d) < LevelOf(t)

\* a table with two dependencies in two different levels was sorted
OrderingWitness ==
    /\ cmd = "sort" /\ opc = "sorted"
    /\ \E t \in table_names : \E d, e \in Listed_deps(t) :
            LevelOf(d) < LevelOf(e) /\ LevelOf(e) < LevelOf(t)

\* the input has only listed dependencies, each given once
CleanDeps ==
    \A t \in table_names \cap DOMAIN deps :
        /\ Range(deps[t]) \subseteq table_names
        /\ Cardinality(Range(deps[t])) = Len(deps[t])

\* C12 - Cycle detection: when the dependencies among the listed tables
\* contain a cycle the call raises the circular-dependency error, and the
\* error names every table that cannot be placed: the tables of the cycle
\* and the tables that depend on them (exactly those, when every
\* dependency is a listed table given once).
CycleDetection ==
    (cmd = "sort" /\ opc # "init" /\ HasCycle) =>
        /\ opc = "raised"
        /\ remaining_tables \subseteq table_names
        /\ \A t \in table_names :
             (OnCycle(t) \/ \E u \in Reach(t) : OnCycle(u)) => t \in remaining_tables
        /\ CleanDeps =>
             \A t \in remaining_tables : OnCycle(t) \/ \E u \in Reach(t) : OnCycle(u)

\* a two-table cycle was reported while a third table could be placed
CycleWitness ==
    /\ cmd = "sort" /\ opc = "raised"
    /\ Cardinality(table_names) = 3
    /\ Cardinality({t \in table_names : OnCycle(t)}) = 2
    /\ Cardinality(remaining_tables) = 2

\* C13 - The error indicates a cycle: the call raises only when the
\* dependencies among the listed tables form a cycle, and otherwise it
\* returns levels that hold every listed table.
CycleOnly ==
    (cmd = "sort" /\ opc # "init") =>
        /\ opc = "raised" => HasCycle
        /\ ~HasCycle => (opc = "sorted" /\ Placed = table_names)

\* ------------------------------------------------------- progress file
\* the cursor the progress file records for table t (None without a record)
PersistedCursor(t) ==
    IF document.exists /\ document.data[t].exists
    THEN document.data[t].last_id ELSE None

\* rows committed to the target that the progress file does not reflect
Unreflected(t) == {p \in Range(target[t]) : p > PersistedCursor(t)}

\* the chunks table t is migrated in: the batches read from each cursor
ChunksOf(t) ==
    {Range(fetch_batch(source[t], config.batch_size, c)) :
        c \in {None} \cup source[t]}

\* C14 - Crash-loss window: at every point of a run of `migrate all` or
\* `migrate resume` at which the process may crash, the rows committed to
\* the target and not reflected in the progress file belong to at most one
\* chunk of their table.
CrashLossWindow ==
    cli.pc \in {"migrate", "save"} =>
        \A t \in Tables :
            \E chunk \in ChunksOf(t) \cup {{}} : Unreflected(t) \subseteq chunk

\* the command has ended after migrate_all_tables returned its results
Finished == cli.pc \in {"done", "exit1", "raised"} /\ opc = "returned"

\* C16 - Progress document lifecycle: when `migrate all` or `migrate
\* resume` finishes, the progress file is gone if and only if every result
\* is a success; otherwise it exists and holds the final progress record
\* of every table.
DocumentLifecycle ==
    Finished =>
        /\ ~document.exists <=> all_success
        /\ document.exists => document.data = progress

\* ------------------------------------------- Migrator.update_progress
\* update_progress calls that are inside the locked block
InBlock == {t \in Tables : frame[t].pc \in {"write", "persist"}}

\* no update_progress call is under way
Quiet == \A t \in Tables : frame[t].pc = "idle"

\* C15 - Progress store under concurrency: the locked blocks of two
\* update_progress calls never overlap; once all calls have finished the
\* file equals the progress in memory, and each table's record holds the
\* last_id and total of its latest call.
ProgressStoreSafe ==
    cmd = "engine" =>
        /\ Cardinality(InBlock) <= 1
        /\ InBlock # {} => progress_lock
        /\ Quiet =>
            /\ (\E t \in Tables : hist[t].calls > 0) =>
                    (document.exists /\ document.data = progress)
            /\ \A t \in Tables : hist[t].calls > 0 =>
                    /\ progress[t].exists
                    /\ progress[t].last_id = frame[t].last_id
                    /\ progress[t].total = frame[t].total

\* two tables wait for the lock while a third writes the file
StoreWitness ==
    /\ cmd = "engine"
    /\ \E t, u, v \in Tables :
        /\ frame[t].pc = "persist" /\ hist[t].calls = 2
        /\ frame[u].pc = "lock" /\ frame[v].pc = "lock" /\ u # v

\* ---------------------------------------------------- target connection
\* C17 - Connection holding: a table task holds a pooled target
\* connection only during the transaction of a chunk; it never holds one
\* while it waits for the next source batch.
ConnectionHolding ==
    \A t \in Tables :
        /\ HoldsConnection(frame[t]) => InChunk(frame[t])
        /\ AwaitsBatch(frame[t]) => ~HoldsConnection(frame[t])

\* -------------------------------------------------------------- re-run
\* the current call of t is the second one and started from scratch
FromScratchAgain(t) == hist[t].calls = 2 /\ ~hist[t].start.exists

\* C18 - Re-run idempotence: a table with a declared unique constraint is
\* migrated twice from scratch with use_copy, without truncation, and the
\* database raises nothing but the conflicts of the second run: the
\* second run succeeds as the first did, and the target holds every source
\* row once, as many rows as the source.
RerunIdempotent ==
    \A t \in Tables :
        (/\ FromScratchAgain(t)
         /\ unique[t] /\ config.use_copy
         /\ hist[t].prev.present /\ hist[t].prev.success
         /\ Returned(t) /\ faults = hist[t].faults) =>
            /\ result[t].success
            /\ Len(target[t]) = Rows(t)
            /\ target[t] = SortedSeq(source[t])

\* the second run of a table of several chunks met conflicts and succeeded
RerunWitness ==
    \E t \in Tables :
        /\ FromScratchAgain(t)
        /\ unique[t] /\ config.use_copy
        /\ hist[t].prev.success
        /\ Returned(t) /\ result[t].success
        /\ hist[t].raised = {"copy"}
        /\ Rows(t) > config.batch_size

\* --------------------------------------- hass_migrate MigrationService
\* C19 - Cursor reflects what is committed: whenever the progress of a
\* table records last_id = c, every source row with primary key <= c
\* that passed cleaning is in the target and no row with primary key > c
\* is, also after a batch insert has raised.
CursorExact ==
    \A t \in Tables :
        (cmd = "hass" /\ progress[t].exists) =>
            /\ \A r \in source[t] \ malformed[t] :
                    r <= progress[t].last_id => r \in Range(target[t])
            /\ \A r \in Range(target[t]) : r <= progress[t].last_id

\* C20 - Concurrency bound: with max_concurrent_tables = N the number of
\* migrate_table calls of a level that are in flight never exceeds N.
HassConcurrencyBound ==
    cmd = "hass" =>
        Cardinality({t \in Tables : HassRunning(frame[t])})
            <= config.max_concurrent_tables

\* C21 - Aggregate result is complete: once the levels are known, the
\* hass_migrate migrate_all_tables call returns, and the returned list has
\* an entry for every table that has columns, a failed one for a table
\* whose migrate_table call raised - also when that table is alone in its
\* level.
AggregateComplete ==
    (cmd = "hass" /\ opc \in {"returned", "raised"} /\ table_levels # <<>>) =>
        /\ opc = "returned"
        /\ \A t \in Tasks(Tables) :
            \E i \in 1..Len(results) :
                /\ results[i].table = t
                /\ frame[t].pc = "raised" => ~results[i].result.success

\* ------------------------------------------------- validation service
\* C22 - validate_all_tables gives one result per requested table, in
\* request order; a table whose validation raised has row_count_match
\* false and the error message in errors, and the tables after it are
\* still validated.
ValidateComplete ==
    validation.pc \in {"validate", "returned"} =>
        /\ Len(validation.results) =
                IF validation.pc = "returned" THEN Len(validation.table_names)
                ELSE validation.i - 1
        /\ \A k \in 1..Len(validation.results) :
                validation.results[k].table = validation.table_names[k]
        /\ \A k \in validation.raised :
                /\ k <= Len(validation.results)
                /\ ~validation.results[k].row_count_match
                /\ validation.results[k].errors \in {<<"mysql_error">>, <<"pg_error">>}

ValidateWitness ==
    /\ validation.pc = "returned"
    /\ Len(validation.table_names) = MaxRequests
    /\ validation.raised = {1}
    /\ Len(validation.results) = MaxRequests
    /\ validation.results[MaxRequests].errors = <<>>

\* C23 - all_match is true exactly when row_count_match, checksum_match
\* and sample_match are all true.
AllMatchConjunction ==
    validation.pc = "evaluated" =>
        (validation.all_match <=>
            /\ validation.result.row_count_match
            /\ validation.result.checksum_match
            /\ validation.result.sample_match)

AllMatchWitness ==
    /\ validation.pc = "evaluated"
    /\ validation.result.row_count_match
    /\ validation.result.sample_match
    /\ ~validation.result.checksum_match
    /\ ~validation.all_match

\* ------------------------------------------------------- data cleaner
\* C24 - Boolean rule of clean_value: for a pair of BOOL_COLUMNS integer
\* 0 gives false, integer 1 gives true, a boolean is returned unchanged
\* and any other integer is returned unchanged with a warning; for a
\* pair of neither allow-list an integer is returned unchanged.
BooleanRule ==
    (cleaner.pc # "none" /\ cleaner.call = "clean_value" /\ cleaner.pc # "init") =>
        LET pair == <<cleaner.table, cleaner.column>>
            v == cleaner.value
            o == cleaner.out
        IN  /\ pair \in BOOL_COLUMNS =>
                /\ v = IntValue(0) => o = Gives(Bool(FALSE))
                /\ v = IntValue(1) => o = Gives(Bool(TRUE))
                /\ v.type = "bool" => o = Gives(v)
                /\ (v.type = "int" /\ v.n \notin {0, 1}) =>
                        o.value = v /\ o.warnings # <<>> /\ o.raised = "none"
            /\ (pair \notin BOOL_COLUMNS \cup TIMESTAMP_COLUMNS /\ v.type = "int") =>
                    o = Gives(v)

BooleanWitness ==
    /\ cleaner.pc = "cleaned"
    /\ cleaner.call = "clean_value"
    /\ <<cleaner.table, cleaner.column>> \in BOOL_COLUMNS
    /\ cleaner.value = IntValue(2)
    /\ cleaner.out = Warned(IntValue(2), "non_boolean_integer")

\* C25 - Idempotence of clean_value (data_cleaner.py): cleaning the value
\* a call returned gives that value again, and raises nothing.
CleanIdempotent ==
    (cleaner.pc # "none" /\ cleaner.call = "clean_value"
        /\ cleaner.impl = "data_cleaner") =>
        /\ cleaner.pc # "raised"
        /\ cleaner.pc = "recleaned" => cleaner.again.value = cleaner.out.value

IdempotentWitness ==
    /\ cleaner.pc = "recleaned"
    /\ cleaner.impl = "data_cleaner"
    /\ cleaner.value = Str(<<"NUL", "a">>)
    /\ cleaner.out.value = Str(<<"a">>)
    /\ cleaner.again.value = Str(<<"a">>)

\* C26 - Timestamp conversion never raises: in both implementations, for
\* a pair of TIMESTAMP_COLUMNS and a number whose conversion fails, the
\* call returns the value unchanged and logs a warning.
TimestampNeverRaises ==
    (cleaner.pc # "none" /\ cleaner.call = "clean_value" /\ cleaner.pc # "init"
        /\ <<cleaner.table, cleaner.column>> \in TIMESTAMP_COLUMNS
        /\ cleaner.value.type \in {"int", "float"}
        /\ FromTimestampError(cleaner.value) # "none") =>
        /\ cleaner.out.raised = "none"
        /\ cleaner.out.value = cleaner.value
        /\ cleaner.out.warnings # <<>>

\* the same for data_cleaner.py alone
TimestampNeverRaisesCleaner ==
    \/ (cleaner.pc # "none" /\ cleaner.call = "clean_value" /\ cleaner.impl = "engine")
    \/ TimestampNeverRaises

\* C27 - clean_batch_values returns, in input order, the cleaned form of
\* the rows that have as many cells as there are columns; the other rows
\* are dropped with a warning each, nothing is raised, and an empty
\* input gives an empty output.
BatchCleaning ==
    (cleaner.pc = "cleaned" /\ cleaner.call = "clean_batch_values") =>
        LET rows == cleaner.rows
            cols == cleaner.columns
            kept == SortedSeq({i \in 1..Len(rows) : Len(rows[i]) = Len(cols)})
            o == cleaner.out
        IN  /\ o.raised = "none"
            /\ Len(o.value) = Len(kept)
            /\ \A j \in 1..Len(kept) :
                /\ Len(o.value[j]) = Len(cols)
                /\ \A k \in 1..Len(cols) :
                    o.value[j][k] = clean_value("data_cleaner", cleaner.table,
                                                cols[k], rows[kept[j]][k]).value
            /\ Len(o.warnings) = Len(rows) - Len(kept)
            /\ rows = <<>> => o.value = <<>>

BatchWitness ==
    /\ cleaner.pc = "cleaned"
    /\ cleaner.call = "clean_batch_values"
    /\ cleaner.columns = <<"run_id", "closed_incorrect">>
    /\ cleaner.rows = <<<<IntValue(1), IntValue(1), IntValue(1)>>,
                        <<IntValue(1), IntValue(1)>>>>
    /\ cleaner.out.value = <<<<IntValue(1), Bool(TRUE)>>>>
    /\ cleaner.out.warnings = <<"row_skipped">>

\* ------------------------------------------- exit status of the commands
\* table t has a result and the result is a success
Succeeded(t) == result[t].present /\ result[t].success

\* C28 as stated - the command exits non-zero exactly when at least one
\* table did not migrate successfully (exit code 0: pc "done"; exit code
\* 1: pc "exit1"; an exception leaving the command: pc "raised").
ExitStatusExact ==
    /\ cli.pc = "done" => \A t \in table_names : Succeeded(t)
    /\ cli.pc \in {"exit1", "raised"} => \E t \in table_names : ~Succeeded(t)

\* C28 - Exit status of migrate all and migrate resume: the command
\* exits zero only when every table's migration succeeded, and when it
\* runs to its end it exits non-zero exactly when a table did not
\* succeed; it also exits non-zero when one of its steps raises.
ExitStatus ==
    /\ cli.pc = "done" => \A t \in table_names : Succeeded(t)
    /\ cli.pc = "exit1" => \E t \in table_names : ~Succeeded(t)

ExitWitness ==
    /\ cli = [cmd |-> "resume", pc |-> "exit1"]
    /\ \E t \in table_names : Succeeded(t)
    /\ \E t \in table_names : ~Succeeded(t)

\* a run of `migrate all` that exits zero
ExitZeroWitness ==
    /\ cli = [cmd |-> "all", pc |-> "done"]
    /\ \A t \in table_names : Succeeded(t) /\ Len(target[t]) = AllMaxPk

\* --------------------------------------------------------- chunk splitting
RECURSIVE Joined(_)
Joined(chunks) == IF chunks = <<>> THEN <<>> ELSE Head(chunks) \o Joined(Tail(chunks))

\* C29 - Chunk splitting: a fetched batch is split into consecutive
\* chunks of at most max_chunk_size rows whose concatenation is the
\* batch, all but the last of exactly max_chunk_size rows; without a
\* positive max_chunk_size the batch is one chunk. Each chunk is
\* inserted under its own transaction: a commit adds rows of the chunk
\* at the head of the list only.
ChunkSplitting ==
    [][\A t \in Tables :
        /\ (cmd \in {"table", "all"} /\ frame[t].pc = "fetch"
                /\ frame'[t].pc = "primary") =>
            LET chunks == frame'[t].chunks
                batch == fetch_batch_with_resume(source[t], config.batch_size,
                                                 frame[t].last_id)[1]
                n == config.max_chunk_size
            IN  /\ Joined(chunks) = batch
                /\ \A i \in 1..Len(chunks) :
                    /\ chunks[i] # <<>>
                    /\ n > 0 => Len(chunks[i]) <= n
                    /\ (n > 0 /\ i < Len(chunks)) => Len(chunks[i]) = n
                /\ n <= 0 => chunks = <<batch>>
        /\ (cmd \in {"table", "all"} /\ target'[t] # target[t]
                /\ frame[t].pc \in {"primary_commit", "fallback_commit"}) =>
            \E new \in SUBSET Range(Head(frame[t].chunks)) :
                target'[t] = target[t] \o SortedSeq(new)
       ]_vars

ChunkSplitWitness ==
    /\ cmd = "table"
    /\ config.batch_size = 3
    /\ config.max_chunk_size = 2
    /\ frame[1].pc = "primary"
    /\ frame[1].chunks = <<<<3>>>>
    /\ target[1] = <<1, 2>>

\* ------------------------------------------------------- retry budget
\* C30 - Retry budget of _insert_batch_with_retry: the bulk insert is
\* attempted at most 3 times, a 1-second sleep stands between two
\* consecutive attempts and nowhere else; after the third failure the
\* rows are inserted one by one, once, and the call returns; the call
\* returns whatever inserts fail.
RetryBudget ==
    /\ []((retry.pc # "none" /\ ~retry.foreign_key) =>
            LET calls == retry.calls
            IN  /\ Count(calls, "executemany") <= 3
                /\ Count(calls, "individually") <= 1
                /\ \A i \in 1..Len(retry.slept) : retry.slept[i] = 1
                /\ \A i \in 1..Len(calls) :
                    /\ calls[i] = "sleep" =>
                            /\ i > 1 /\ calls[i - 1] = "executemany"
                            /\ i < Len(calls) => calls[i + 1] = "executemany"
                    /\ (calls[i] = "executemany" /\ i < Len(calls)) =>
                            calls[i + 1] \in {"sleep", "individually"}
                    /\ calls[i] = "individually" =>
                            /\ i = Len(calls)
                            /\ Count(calls, "executemany") = 3
                /\ retry.pc \in {"returned", "counted"} =>
                    /\ Last(calls) \in {"executemany", "individually"}
                    /\ Last(calls) = "executemany" =>
                            retry.returned = Len(retry.cleaned_batch)
                    /\ Last(calls) = "individually" =>
                            /\ retry.executed = retry.cleaned_batch
                            /\ retry.returned = retry.inserted_count
                            /\ retry.inserted_count + retry.skipped_count
                                    = Len(retry.cleaned_batch))
    /\ (retry.pc # "none") ~> (retry.pc \in {"returned", "counted"})

RetryWitness ==
    /\ retry.pc = "returned"
    /\ ~retry.foreign_key
    /\ retry.calls = <<"executemany", "sleep", "executemany", "sleep",
                       "executemany", "individually">>
    /\ Len(retry.cleaned_batch) = 2
    /\ retry.inserted_count = 1
    /\ retry.skipped_count = 1

FixupOrdering ==
    /\ [](/\ Len(fixed) <= Len(TABLES)
          /\ fixed = SubSeq(TABLES, 1, Len(fixed))
          /\ cli.pc \in {"save", "done", "exit1"} => fixed = TABLES
          /\ (cli.pc = "migrate" /\ opc # "returned") => fixed = <<>>)
    /\ [][/\ (fixed' # fixed /\ fixed' # <<>>) =>
                /\ opc = "returned"
                /\ Len(results) = Cardinality(table_names)
                /\ \A t \in Tables : ~Running(frame[t])
                /\ cli.pc = "migrate"
          /\ (document' # document /\ cli.cmd \in {"all", "resume"}) =>
                /\ cli.pc = "save"
                /\ fixed = TABLES]_vars

FixupWitness ==
    /\ cli.pc = "exit1"
    /\ fixed = TABLES
    /\ \E i \in 1..Len(results) : ~results[i].result.success
    /\ \E i \in 1..Len(results) : results[i].result.success
    /\ document.exists

\* C33 - Termination of a table migration: every started call of
\* migrate_table eventually returns with the table completed or failed,
\* whatever rows cleaning drops.
TableTerminates ==
    \A t \in Tables :
        Running(frame[t]) ~>
            /\ frame[t].pc = "returned"
            /\ result[t].present
            /\ progress[t].status \in {"completed", "failed"}

\* C33 restricted to sources of which cleaning drops no row
TableTerminatesClean ==
    \A t \in Tables :
        (Running(frame[t]) /\ malformed[t] = {}) ~>
            /\ frame[t].pc = "returned"
            /\ result[t].present
            /\ progress[t].status \in {"completed", "failed"}

\* a call that fetched a batch of which every row is dropped
AllDroppedWitness ==
    /\ frame[1].pc = "fetch"
    /\ source[1] = {1, 2}
    /\ malformed[1] = {2}
    /\ frame[1].last_id = 1
    /\ hist[1].reads = {1, 2}

\* C34 - Cursor-target consistency (one call for a table without progress,
\* into an empty target): while the call runs, the rows of the table in
\* the target are exactly the source rows cleaning keeps whose primary key
\* is at most the recorded last_id (none when last_id is None), and the
\* recorded total is their number.
Covered(t) ==
    IF progress[t].last_id = None THEN {}
    ELSE {p \in source[t] \ malformed[t] : p <= progress[t].last_id}

CountIsInserted ==
    \A t \in Tables :
        /\ frame[t].pc \in {"primary_commit", "fallback_commit"} =>
                frame[t].inserted_count = Len(NewRows(t))
        /\ (hist[t].calls > 0 /\ Returned(t) /\ result[t].success) =>
                result[t].rows_migrated - hist[t].start.total = Inserted(t)

\* C36 - Status while running: as long as a call of migrate_table for a
\* table is between its first await and its return, the table's progress
\* record carries status in_progress, whatever record the call found.
RunningStatus ==
    \A t \in Tables :
        Running(frame[t]) => progress[t].status = "in_progress"

\* C36 for the calls that found no record of the table
RunningStatusFresh ==
    \A t \in Tables :
        (Running(frame[t]) /\ ~hist[t].start.exists) =>
            progress[t].status = "in_progress"

\* C37 - Result and status agree: for every result migrate_table has
\* returned, success holds exactly when the error list is empty and
\* exactly when the table's record has status completed, and fails
\* exactly when the record has status failed. (With an empty column list
\* the call raises and returns no result; the result of such a table is
\* built by run_table.)
ResultStatusAgree ==
    \A t \in Tables :
        (frame[t].pc = "returned" /\ result[t].present /\ columns[t] # "empty") =>
            /\ result[t].success <=> (result[t].errors = <<>>)
            /\ result[t].success <=> (progress[t].status = "completed")
            /\ ~result[t].success <=> (progress[t].status = "failed")

\* a second call that failed for a table a first call had completed
ResultStatusWitness ==
    /\ hist[1].calls = 2
    /\ hist[1].start.status = "completed"
    /\ frame[1].pc = "returned"
    /\ ~result[1].success
    /\ Len(result[1].errors) = 1
    /\ progress[1].status = "failed"

\* C38 - Levels partition the tables: when topological_sort returns,
\* every table of the input is in exactly one level, no level is empty,
\* no level holds a table that is not in the input; and every call
\* returns or raises (the loop runs at most once per table).
LevelsPartition ==
    /\ []((cmd = "sort" /\ opc = "sorted") =>
            /\ \A t \in table_names :
                 Cardinality({i \in 1..Len(table_levels) : t \in table_levels[i]}) = 1
            /\ \A i \in 1..Len(table_levels) :
                 /\ table_levels[i] # {}
                 /\ table_levels[i] \subseteq table_names
            /\ Len(table_levels) <= Cardinality(table_names))
    /\ (cmd = "sort" /\ opc = "init") ~> (opc \in {"sorted", "raised"})

\* two tables were sorted into two levels, with a dependency map that
\* has a key outside the input
PartitionWitness ==
    /\ cmd = "sort" /\ opc = "sorted"
    /\ Cardinality(table_names) = 2
    /\ Len(table_levels) = 2
    /\ ~(DOMAIN deps \subseteq table_names)

\* C39 - Frame of a table task: under migrate_all_tables a step of the
\* migrate_table call of a table changes the progress record of no other
\* table, a record changes only in a step of its own table's call, and
\* the record of a table whose call has returned is the one the call
\* wrote last.
TaskFrame ==
    /\ [][(cmd = "all" /\ cli' = cli) =>
            \A t \in Tables :
                /\ frame'[t] # frame[t] /\ (Running(frame[t]) \/ Running(frame'[t])) =>
                     \A u \in Tables \ {t} : progress'[u] = progress[u]
                /\ progress'[t] # progress[t] =>
                     /\ frame'[t] # frame[t]
                     /\ frame[t].pc = "queued" \/ Running(frame[t])]_vars
    /\ [](cmd = "all" =>
            \A t \in Tables :
                (frame[t].pc = "returned" /\ progress[t].exists) =>
                    /\ progress[t].last_id = frame[t].last_id
                    /\ progress[t].total = frame[t].total)

\* the call of table 1 has completed while the call of table 2, of the
\* same level, is at its second batch
TaskFrameWitness ==
    /\ cmd = "all"
    /\ level_idx = 1 /\ {1, 2} \subseteq table_levels[1]
    /\ frame[1].pc = "returned" /\ progress[1].status = "completed"
    /\ progress[1].last_id = 2
    /\ Running(frame[2]) /\ progress[2].last_id = 1
    /\ progress[2].status = "in_progress"

====
